---------------------------- MODULE Spec2Model ----------------------------
(***************************************************************************)
(* Events section of an .osu file: the line-by-line parser                 *)
(* (Events::from_str), the serializer (Events::to_string / Event::fmt),    *)
(* the normal-event grammar (EventParams::from_str) and the versioned      *)
(* normal events (Background, Video, Break, ColourTransformation).         *)
(*                                                                         *)
(* Text is a sequence of characters; a line is such a sequence without     *)
(* "\n".  An ASCII character is the one-character string of itself, any    *)
(* other character is the string of its code point, "U+" and four to six   *)
(* upper-case hexadecimal digits ("U+00E9", "U+3000"), so that the module  *)
(* is ASCII and reads the same under every charset.  Every codec works on  *)
(* the characters.                                                         *)
(***************************************************************************)
EXTENDS Integers, Sequences, FiniteSets, TLC

(***************************************************************************)
(* Bounds of the model.                                                    *)
(***************************************************************************)
\* Number of physical lines of an input text.
MaxLines == 3

\* Number of command lines under one Object, and their deepest indentation.
MaxTreeLines == 5
MaxDepth == 3

\* Number of fields after the type token of a command line.
MaxFields == 7

\* Number of fields of a generated command line whose text is not `0`.
MaxOddFields == 2

(***************************************************************************)
(* Characters and primitive codecs.                                        *)
(***************************************************************************)
Digits == {"0", "1", "2", "3", "4", "5", "6", "7", "8", "9"}

DigitVal(c) ==
    CASE c = "0" -> 0 [] c = "1" -> 1 [] c = "2" -> 2 [] c = "3" -> 3
      [] c = "4" -> 4 [] c = "5" -> 5 [] c = "6" -> 6 [] c = "7" -> 7
      [] c = "8" -> 8 [] c = "9" -> 9

DigitChar(d) ==
    CASE d = 0 -> "0" [] d = 1 -> "1" [] d = 2 -> "2" [] d = 3 -> "3"
      [] d = 4 -> "4" [] d = 5 -> "5" [] d = 6 -> "6" [] d = 7 -> "7"
      [] d = 8 -> "8" [] d = 9 -> "9"

\* Integer = i32
I32Max == 2147483647
I32Min == (-2147483647) - 1
U8Max == 255

Drop(s, n) == SubSeq(s, n + 1, Len(s))
Take(s, n) == SubSeq(s, 1, n)

\* <i32 as FromStr>::from_str: an optional sign, then at least one digit; the
\* value is accumulated on the side of the sign and an overflow is an error.
RECURSIVE AccumulateDigits(_, _, _, _)
AccumulateDigits(f, i, acc, neg) ==
    IF i > Len(f) THEN [ok |-> TRUE, val |-> acc]
    ELSE IF f[i] \notin Digits THEN [ok |-> FALSE, val |-> 0]
    ELSE LET d == DigitVal(f[i]) IN
         IF neg
         THEN IF acc < -(I32Max \div 10) \/ acc * 10 < I32Min + d
              THEN [ok |-> FALSE, val |-> 0]
              ELSE AccumulateDigits(f, i + 1, acc * 10 - d, neg)
         ELSE IF acc > I32Max \div 10 \/ acc * 10 > I32Max - d
              THEN [ok |-> FALSE, val |-> 0]
              ELSE AccumulateDigits(f, i + 1, acc * 10 + d, neg)

ParseInteger(f) ==
    IF f = <<>> THEN [ok |-> FALSE, val |-> 0]
    ELSE IF f[1] \in {"+", "-"}
         THEN IF Len(f) = 1 THEN [ok |-> FALSE, val |-> 0]
              ELSE AccumulateDigits(f, 2, 0, f[1] = "-")
         ELSE AccumulateDigits(f, 1, 0, FALSE)

\* <u8 as FromStr>::from_str: an optional "+", digits, at most 255.
InU8Range(r) == IF r.ok /\ r.val <= U8Max THEN r ELSE [ok |-> FALSE, val |-> 0]

ParseU8(f) ==
    IF f = <<>> \/ f[1] = "-" THEN [ok |-> FALSE, val |-> 0]
    ELSE InU8Range(ParseInteger(f))

\* <Decimal as FromStr>::from_str: an optional sign, digits, at most one
\* point and at least one digit; the value is kept as its text
IsDecimalBody(f) ==
    /\ \A i \in 1..Len(f) : f[i] \in Digits \cup {"."}
    /\ \E i \in 1..Len(f) : f[i] \in Digits
    /\ Cardinality({i \in 1..Len(f) : f[i] = "."}) <= 1

ParseDecimal(f) ==
    IF f # <<>> /\ IsDecimalBody(IF f[1] \in {"+", "-"} THEN Tail(f) ELSE f)
    THEN [ok |-> TRUE, val |-> f]
    ELSE [ok |-> FALSE, val |-> <<>>]

\* Display of a Decimal: the text it was parsed from, without a "+" sign
Decimal_to_string(d) == IF d[1] = "+" THEN Tail(d) ELSE d

\* Display of an integer: canonical decimal digits, "-" for a negative one.
RECURSIVE NatDigits(_)
NatDigits(n) ==
    IF n < 10 THEN <<DigitChar(n)>>
    ELSE Append(NatDigits(n \div 10), DigitChar(n % 10))

RECURSIVE NegDigits(_)
NegDigits(n) ==
    \* n <= 0; digits of -n without ever negating n
    LET r == n % 10
        d == IF r = 0 THEN 0 ELSE 10 - r
        q == IF r = 0 THEN n \div 10 ELSE (n \div 10) + 1
    IN IF q = 0 THEN <<DigitChar(d)>> ELSE Append(NegDigits(q), DigitChar(d))

IntToString(n) == IF n >= 0 THEN NatDigits(n) ELSE <<"-">> \o NegDigits(n)

(***************************************************************************)
(* nom helpers of parsers.rs.                                              *)
(***************************************************************************)
\* tag(t)(s) succeeds iff t is a prefix of s
tag(t, s) == Len(s) >= Len(t) /\ Take(s, Len(t)) = t

\* comma(): tag(",")
comma(s) == tag(<<",">>, s)

FirstComma(s) ==
    IF \E i \in 1..Len(s) : s[i] = ","
    THEN CHOOSE i \in 1..Len(s) : s[i] = "," /\ \A j \in 1..(i - 1) : s[j] # ","
    ELSE Len(s) + 1

\* comma_field(): take_while(c != ','), never fails
comma_field(s) == [out |-> Take(s, FirstComma(s) - 1), rest |-> Drop(s, FirstComma(s) - 1)]

\* a value bound once and handed to the rest of the computation
Bind(v, Body(_)) == Body(v)

\* the parsers of a sequence (tuple, preceded): Next is applied to the output
\* of a parser that succeeded, and a failure is returned as it is
and_then(r, Next(_)) == IF r.ok THEN Next(r) ELSE r

\* map_res(parser, parse): the parser's output converted, its rest kept
map_res(f, parse(_)) ==
    Bind(parse(f.out), LAMBDA r : [ok |-> r.ok, val |-> r.val, rest |-> f.rest])

\* comma_field_type::<Integer>(): map_res(comma_field(), parse)
comma_field_type(s) == map_res(comma_field(s), ParseInteger)

\* comma_field_type::<u8>()
comma_field_u8(s) == map_res(comma_field(s), ParseU8)

\* consume_rest_type::<Integer>(): map_res(rest, parse)
consume_rest_type(s) == ParseInteger(s)

\* consume_rest_type::<u8>()
consume_rest_u8(s) == ParseU8(s)

(***************************************************************************)
(* EventParams::from_str: the normal-event grammar.  The result is         *)
(* [ok |-> TRUE, val |-> params] or [ok |-> FALSE, err |-> variant of      *)
(* EventParamsParseError].  A position is <<>> (None) or <<x, y>> (Some).  *)
(***************************************************************************)
ParamsErr(e) == [ok |-> FALSE, err |-> e]

\* context(e, parser): a failure of the parser is reported as e
context(e, r) == IF r.ok THEN r ELSE ParamsErr(e)

\* coordinates() with the pair 0,0 taken for an absent position
coordinates_zero_is_none(s) ==
    IF s = <<>> THEN [ok |-> TRUE, val |-> <<>>]
    ELSE IF ~comma(s) THEN ParamsErr("MissingXOffset")
    ELSE and_then(context("InvalidXOffset", comma_field_type(Drop(s, 1))), LAMBDA x :
         IF ~comma(x.rest) THEN ParamsErr("MissingYOffset")
         ELSE and_then(context("InvalidYOffset", consume_rest_type(Drop(x.rest, 1))),
                       LAMBDA y : [ok |-> TRUE,
                                   val |-> IF x.val = 0 /\ y.val = 0 THEN <<>>
                                           ELSE <<x.val, y.val>>]))

\* coordinates(): alt((eof -> None, tuple((comma x, comma y)) -> Some))
coordinates(s) ==
    IF s = <<>> THEN [ok |-> TRUE, val |-> <<>>]
    ELSE IF ~comma(s) THEN ParamsErr("MissingXOffset")
    ELSE and_then(context("InvalidXOffset", comma_field_type(Drop(s, 1))), LAMBDA x :
         IF ~comma(x.rest) THEN ParamsErr("MissingYOffset")
         ELSE and_then(context("InvalidYOffset", consume_rest_type(Drop(x.rest, 1))),
                       LAMBDA y : [ok |-> TRUE, val |-> <<x.val, y.val>>]))

\* file_name_and_coordinates(): tuple((file_name(), coordinates()))
file_name_and_coordinates(s) ==
    Bind(comma_field(s), LAMBDA f :
    and_then(coordinates(f.rest), LAMBDA c :
             [ok |-> TRUE, filename |-> f.out, position |-> c.val]))

\* cut(tuple((context(MissingStartTime, comma()), start_time(),
\*            context(missing, comma())))) applied after the header tag
start_time_prefix(s, missing) ==
    IF ~comma(s) THEN ParamsErr("MissingStartTime")
    ELSE Bind(comma_field(Drop(s, 1)), LAMBDA st :
         IF ~comma(st.rest) THEN ParamsErr(missing)
         ELSE [ok |-> TRUE, rest |-> Drop(st.rest, 1)])

background(s) ==
    and_then(start_time_prefix(Drop(s, 1), "MissingFileName"), LAMBDA p :
    and_then(file_name_and_coordinates(p.rest), LAMBDA fc :
             [ok |-> TRUE,
              val |-> [kind |-> "Background", filename |-> fc.filename,
                       position |-> fc.position]]))

video(s, header, short_hand) ==
    and_then(start_time_prefix(Drop(s, Len(header)), "MissingFileName"), LAMBDA p :
    and_then(file_name_and_coordinates(p.rest), LAMBDA fc :
             [ok |-> TRUE,
              val |-> [kind |-> "Video", filename |-> fc.filename,
                       position |-> fc.position, short_hand |-> short_hand]]))

break_(s, header, short_hand) ==
    and_then(start_time_prefix(Drop(s, Len(header)), "MissingEndTime"), LAMBDA p :
    and_then(context("InvalidEndTime", consume_rest_type(p.rest)), LAMBDA e :
             [ok |-> TRUE,
              val |-> [kind |-> "Break", end_time |-> e.val, short_hand |-> short_hand]]))

colour_transformation(s) ==
    and_then(start_time_prefix(Drop(s, 1), "MissingRed"), LAMBDA p :
    and_then(context("InvalidRed", comma_field_u8(p.rest)), LAMBDA r :
    IF ~comma(r.rest) THEN ParamsErr("MissingGreen")
    ELSE and_then(context("InvalidGreen", comma_field_u8(Drop(r.rest, 1))), LAMBDA g :
    IF ~comma(g.rest) THEN ParamsErr("MissingBlue")
    ELSE and_then(context("InvalidBlue", consume_rest_u8(Drop(g.rest, 1))), LAMBDA b :
         [ok |-> TRUE,
          val |-> [kind |-> "ColourTransformation", red |-> r.val,
                   green |-> g.val, blue |-> b.val]]))))

VIDEO_LONG == <<"V", "i", "d", "e", "o">>
BREAK_LONG == <<"B", "r", "e", "a", "k">>

\* alt((background, video, break_, colour_transformation,
\*      context(UnknownEventType, fail))): the first header tag that matches
\* commits (cut) to its grammar
EventParams_from_str(s) ==
    IF tag(<<"0">>, s) THEN background(s)
    ELSE IF tag(<<"1">>, s) THEN video(s, <<"1">>, TRUE)
    ELSE IF tag(VIDEO_LONG, s) THEN video(s, VIDEO_LONG, FALSE)
    ELSE IF tag(<<"2">>, s) THEN break_(s, <<"2">>, TRUE)
    ELSE IF tag(BREAK_LONG, s) THEN break_(s, BREAK_LONG, FALSE)
    ELSE IF tag(<<"3">>, s) THEN colour_transformation(s)
    ELSE ParamsErr("UnknownEventType")

(***************************************************************************)
(* Event::fmt: the serializer of one event.  The result is the sequence of *)
(* lines the event is rendered to; Display joins them with "\n".           *)
(***************************************************************************)
COMMA == <<",">>

\* position_str with the coordinates written in the wrong order
position_str_swapped(position) ==
    IF position = <<>> THEN <<>>
    ELSE COMMA \o IntToString(position[2]) \o COMMA \o IntToString(position[1])

\* position_str(&Option<Position>)
position_str(position) ==
    IF position = <<>> THEN <<>>
    ELSE COMMA \o IntToString(position[1]) \o COMMA \o IntToString(position[2])

RECURSIVE JoinWith(_, _)
JoinWith(seqs, sep) ==
    IF seqs = <<>> THEN <<>>
    ELSE IF Len(seqs) = 1 THEN seqs[1]
    ELSE seqs[1] \o sep \o JoinWith(Tail(seqs), sep)

RECURSIVE Repeat(_, _)
Repeat(c, n) == IF n = 0 THEN <<>> ELSE <<c>> \o Repeat(c, n - 1)

\* every command taken for a container
IsContainer_every_command(cmd) == cmd.type \in {"L", "T", "F"}

\* matches!(cmd.properties, Loop { .. } | Trigger { .. })
IsContainer(cmd) == cmd.type \in {"L", "T"}

\* the type token of a command
CommandToken(type) ==
    CASE type = "F" -> <<"F">>
      [] type = "M" -> <<"M">>
      [] type = "MX" -> <<"M", "X">>
      [] type = "MY" -> <<"M", "Y">>
      [] type = "S" -> <<"S">>
      [] type = "V" -> <<"V">>
      [] type = "R" -> <<"R">>
      [] type = "C" -> <<"C">>
      [] type = "P" -> <<"P">>
      [] type = "L" -> <<"L">>
      [] type = "T" -> <<"T">>

\* Display of one value of a keyframe: a colour component is a u8, a
\* parameter its letter, every other value a Decimal
CommandValue_fmt(type, v) ==
    IF type = "C" THEN IntToString(v)
    ELSE IF type = "P" THEN v
    ELSE Decimal_to_string(v)

\* Display of a Command: its own line, children excluded
Command_fmt(cmd) ==
    IF cmd.type = "L"
    THEN <<"L">> \o COMMA \o IntToString(cmd.start_time) \o COMMA \o IntToString(cmd.loop_count)
    ELSE IF cmd.type = "T"
    THEN <<"T">> \o COMMA \o cmd.trigger_type
         \o (IF cmd.group_number = <<>> THEN <<>>
             ELSE COMMA \o IntToString(cmd.group_number[1]))
         \o COMMA \o IntToString(cmd.start_time) \o COMMA \o IntToString(cmd.end_time)
    ELSE CommandToken(cmd.type) \o COMMA \o IntToString(cmd.easing)
         \o COMMA \o IntToString(cmd.start_time)
         \o COMMA \o (IF cmd.end_time = <<>> THEN <<>> ELSE IntToString(cmd.end_time[1]))
         \o COMMA
         \o JoinWith([i \in 1..Len(cmd.values) |-> CommandValue_fmt(cmd.type, cmd.values[i])],
                     COMMA)

\* the inner `loop` of Event::fmt: the explicit-stack walk below one top-level
\* container.  current_cmds/current_index/indentation are the loop's locals,
\* cmds_stack its stack of (commands, index, indentation), builder the lines
\* written so far.
RECURSIVE WalkLoop(_, _, _, _, _)
WalkLoop(current_cmds, current_index, indentation, cmds_stack, builder) ==
    LET cmd == current_cmds[current_index]
        next_index == current_index + 1
        written == Append(builder, Repeat(" ", indentation) \o Command_fmt(cmd))
    IN IF IsContainer(cmd) /\ cmd.commands # <<>>
       THEN WalkLoop(cmd.commands, 1, indentation + 1,
                     IF next_index <= Len(current_cmds)
                     THEN Append(cmds_stack, <<current_cmds, next_index, indentation>>)
                     ELSE cmds_stack,
                     written)
       ELSE IF next_index > Len(current_cmds)
            THEN IF cmds_stack = <<>> THEN written
                 ELSE LET top == cmds_stack[Len(cmds_stack)] IN
                      WalkLoop(top[1], top[2], top[3],
                               Take(cmds_stack, Len(cmds_stack) - 1), written)
            ELSE WalkLoop(current_cmds, next_index, indentation, cmds_stack, written)

\* the `for` loop with the indentation left one deeper after an empty
\* Loop/Trigger
RECURSIVE CommandLines_deeper_after_empty(_, _, _)
CommandLines_deeper_after_empty(commands, i, builder) ==
    IF i > Len(commands) THEN builder
    ELSE LET cmd == commands[i]
             after_empty == i > 1 /\ IsContainer(commands[i - 1])
                            /\ commands[i - 1].commands = <<>>
             written == Append(builder, Repeat(" ", IF after_empty THEN 2 ELSE 1)
                                        \o Command_fmt(cmd))
         IN IF IsContainer(cmd) /\ cmd.commands # <<>>
            THEN CommandLines_deeper_after_empty(commands, i + 1,
                                                 WalkLoop(cmd.commands, 1, 2, <<>>, written))
            ELSE CommandLines_deeper_after_empty(commands, i + 1, written)

\* the `for cmd in &object.commands` loop of Event::fmt
RECURSIVE CommandLines(_, _, _)
CommandLines(commands, i, builder) ==
    IF i > Len(commands) THEN builder
    ELSE LET cmd == commands[i]
             written == Append(builder, Repeat(" ", 1) \o Command_fmt(cmd))
         IN IF IsContainer(cmd) /\ cmd.commands # <<>>
            THEN CommandLines(commands, i + 1, WalkLoop(cmd.commands, 1, 2, <<>>, written))
            ELSE CommandLines(commands, i + 1, written)

Object_header(object) ==
    LET pos_str == IntToString(object.position[1]) \o COMMA \o IntToString(object.position[2])
        common == object.layer \o COMMA \o object.origin \o COMMA
                  \o object.object_type.filepath \o COMMA \o pos_str
    IN IF object.object_type.kind = "Sprite"
       THEN <<"S", "p", "r", "i", "t", "e">> \o COMMA \o common
       ELSE <<"A", "n", "i", "m", "a", "t", "i", "o", "n">> \o COMMA \o common
            \o COMMA \o IntToString(object.object_type.frame_count)
            \o COMMA \o IntToString(object.object_type.frame_delay)
            \o COMMA \o object.object_type.loop_type

NormalEvent_fmt(start_time, p) ==
    IF p.kind = "Background"
    THEN <<"0">> \o COMMA \o IntToString(start_time) \o COMMA \o p.filename
         \o position_str(p.position)
    ELSE IF p.kind = "Video"
    THEN (IF p.short_hand THEN <<"1">> ELSE VIDEO_LONG) \o COMMA \o IntToString(start_time)
         \o COMMA \o p.filename \o position_str(p.position)
    ELSE IF p.kind = "Break"
    THEN (IF p.short_hand THEN <<"2">> ELSE BREAK_LONG) \o COMMA \o IntToString(start_time)
         \o COMMA \o IntToString(p.end_time)
    ELSE <<"3">> \o COMMA \o IntToString(start_time) \o COMMA \o IntToString(p.red)
         \o COMMA \o IntToString(p.green) \o COMMA \o IntToString(p.blue)

NEWLINE == <<"\n">>

Event_fmt(event) ==
    IF event.tag = "Comment" THEN <<"/", "/">> \o event.text
    ELSE IF event.tag = "NormalEvent"
    THEN NormalEvent_fmt(event.start_time, event.event_params)
    ELSE IF event.object.commands = <<>> THEN Object_header(event.object)
    ELSE Object_header(event.object) \o NEWLINE
         \o JoinWith(CommandLines(event.object.commands, 1, <<>>), NEWLINE)

\* Events::to_string: the events' renderings joined with "\n"
Events_to_string(events) ==
    JoinWith([i \in 1..Len(events) |-> Event_fmt(events[i])], NEWLINE)

(***************************************************************************)
(* Storyboard objects and commands: Object::from_str, Command::from_str    *)
(* and Object::try_push_cmd.                                               *)
(***************************************************************************)
LayerNames ==
    {<<"B", "a", "c", "k", "g", "r", "o", "u", "n", "d">>,
     <<"F", "a", "i", "l">>,
     <<"P", "a", "s", "s">>,
     <<"F", "o", "r", "e", "g", "r", "o", "u", "n", "d">>}

OriginNames ==
    {<<"T", "o", "p", "L", "e", "f", "t">>,
     <<"C", "e", "n", "t", "r", "e">>,
     <<"C", "e", "n", "t", "r", "e", "L", "e", "f", "t">>,
     <<"T", "o", "p", "R", "i", "g", "h", "t">>,
     <<"B", "o", "t", "t", "o", "m", "C", "e", "n", "t", "r", "e">>,
     <<"T", "o", "p", "C", "e", "n", "t", "r", "e">>,
     <<"C", "u", "s", "t", "o", "m">>,
     <<"C", "e", "n", "t", "r", "e", "R", "i", "g", "h", "t">>,
     <<"B", "o", "t", "t", "o", "m", "L", "e", "f", "t">>,
     <<"B", "o", "t", "t", "o", "m", "R", "i", "g", "h", "t">>}

LoopTypeNames ==
    {<<"L", "o", "o", "p", "F", "o", "r", "e", "v", "e", "r">>,
     <<"L", "o", "o", "p", "O", "n", "c", "e">>}

SPRITE == <<"S", "p", "r", "i", "t", "e">>
ANIMATION == <<"A", "n", "i", "m", "a", "t", "i", "o", "n">>


RECURSIVE SplitComma(_)
SplitComma(s) ==
    LET f == comma_field(s) IN
    IF f.rest = <<>> THEN <<f.out>> ELSE <<f.out>> \o SplitComma(Drop(f.rest, 1))

ObjectErr(e) == [ok |-> FALSE, err |-> e]

\* Object::from_str: `Sprite|Animation,<layer>,<origin>,<filepath>,<x>,<y>`
\* and, for an Animation, `,<frame_count>,<frame_delay>,<loop_type>`.  A header
\* token that is neither fails with UnknownObjectType.
Object_from_str(s) ==
    LET f == SplitComma(s) IN
    IF f[1] # SPRITE /\ f[1] # ANIMATION THEN ObjectErr("UnknownObjectType")
    ELSE IF Len(f) < 6 THEN ObjectErr("MissingField")
    ELSE LET x == ParseInteger(f[5]) y == ParseInteger(f[6]) IN
         IF f[2] \notin LayerNames \/ f[3] \notin OriginNames \/ ~x.ok \/ ~y.ok
         THEN ObjectErr("FieldParseError")
         ELSE IF f[1] = SPRITE
         THEN [ok |-> TRUE,
               val |-> [layer |-> f[2], origin |-> f[3], position |-> <<x.val, y.val>>,
                        object_type |-> [kind |-> "Sprite", filepath |-> f[4]],
                        commands |-> <<>>]]
         ELSE IF Len(f) < 9 THEN ObjectErr("MissingField")
         ELSE LET fc == ParseInteger(f[7]) fd == ParseInteger(f[8]) IN
              IF ~fc.ok \/ fc.val < 0 \/ ~fd.ok \/ f[9] \notin LoopTypeNames
              THEN ObjectErr("FieldParseError")
              ELSE [ok |-> TRUE,
                    val |-> [layer |-> f[2], origin |-> f[3],
                             position |-> <<x.val, y.val>>,
                             object_type |-> [kind |-> "Animation", filepath |-> f[4],
                                              frame_count |-> fc.val,
                                              frame_delay |-> fd.val,
                                              loop_type |-> f[9]],
                             commands |-> <<>>]]

IndentChars == {" ", "_"}

\* take_while(|c| c == ' ' || c == '_')(line).len()
RECURSIVE IndentOf(_)
IndentOf(line) ==
    IF line # <<>> /\ line[1] \in IndentChars THEN 1 + IndentOf(Tail(line)) ELSE 0

CommandErr(e) == [ok |-> FALSE, err |-> e]
CommandOk(val) == [ok |-> TRUE, val |-> val]

\* the letters of a Parameter command: horizontal flip, vertical flip,
\* additive blending
PARAMETER_TYPES == {<<"H">>, <<"V">>, <<"A">>}

\* the trigger types: the keyword triggers and HitSound, alone or with one
\* addition; the sample set and custom sample fields of HitSound are left out
TRIGGER_TYPES ==
    {<<"P", "a", "s", "s", "i", "n", "g">>,
     <<"F", "a", "i", "l", "i", "n", "g">>,
     <<"H", "i", "t", "S", "o", "u", "n", "d">>,
     <<"H", "i", "t", "S", "o", "u", "n", "d", "C", "l", "a", "p">>,
     <<"H", "i", "t", "S", "o", "u", "n", "d", "F", "i", "n", "i", "s", "h">>,
     <<"H", "i", "t", "S", "o", "u", "n", "d", "W", "h", "i", "s", "t", "l", "e">>}

\* a count (an easing, a loop count): an Integer that is not negative
ParseCount(t) ==
    IF ParseInteger(t).ok /\ ParseInteger(t).val >= 0 THEN ParseInteger(t)
    ELSE [ok |-> FALSE, val |-> 0]

\* the primitive codec of a field of a command line
ParseCommandField(codec, t) ==
    CASE codec = "Integer" -> ParseInteger(t)
      [] codec = "Count" -> ParseCount(t)
      [] codec = "u8" -> ParseU8(t)
      [] codec = "Decimal" -> ParseDecimal(t)
      [] codec = "Parameter" -> [ok |-> t \in PARAMETER_TYPES, val |-> t]
      [] codec = "TriggerType" -> [ok |-> t \in TRIGGER_TYPES, val |-> t]

\* preceded(context(missing, comma()), context(invalid, codec)) at the i-th
\* field of the line
command_field(f, i, codec, missing, invalid) ==
    IF Len(f) < i THEN CommandErr(missing)
    ELSE IF ~ParseCommandField(codec, f[i]).ok THEN CommandErr(invalid)
    ELSE CommandOk(ParseCommandField(codec, f[i]).val)

\* the values after the first keyframe, from the i-th field on: [ok, vals]
RECURSIVE ParseContinuing(_, _, _)
ParseContinuing(fields, i, codec) ==
    IF i > Len(fields) THEN [ok |-> TRUE, vals |-> <<>>]
    ELSE IF ParseCommandField(codec, fields[i]).ok /\ ParseContinuing(fields, i + 1, codec).ok
    THEN [ok |-> TRUE,
          vals |-> <<ParseCommandField(codec, fields[i]).val>>
                   \o ParseContinuing(fields, i + 1, codec).vals]
    ELSE [ok |-> FALSE, vals |-> <<>>]

\* `,<easing>,<start_time>,<end_time>` with the start time looked for before
\* the easing is converted
easing_start_end_time_missing_first(f) ==
    IF Len(f) < 2 THEN CommandErr("MissingEasing")
    ELSE IF Len(f) < 3 THEN CommandErr("MissingStartTime")
    ELSE IF ~ParseCount(f[2]).ok THEN CommandErr("InvalidEasing")
    ELSE IF ~ParseInteger(f[3]).ok THEN CommandErr("InvalidStartTime")
    ELSE IF Len(f) < 4 THEN CommandErr("MissingEndTime")
    ELSE IF f[4] # <<>> /\ ~ParseInteger(f[4]).ok THEN CommandErr("InvalidEndTime")
    ELSE [ok |-> TRUE, easing |-> ParseCount(f[2]).val,
          start_time |-> ParseInteger(f[3]).val,
          end_time |-> IF f[4] = <<>> THEN <<>> ELSE <<ParseInteger(f[4]).val>>]

\* `,<easing>,<start_time>,<end_time>`, the fields every command but a Loop
\* and a Trigger begins with.  An empty <end_time> is accepted (the end is
\* the start): the end_time is <<>> (None) or <<t>> (Some).
easing_start_end_time(f) ==
    IF Len(f) < 2 THEN CommandErr("MissingEasing")
    ELSE IF ~ParseCount(f[2]).ok THEN CommandErr("InvalidEasing")
    ELSE IF Len(f) < 3 THEN CommandErr("MissingStartTime")
    ELSE IF ~ParseInteger(f[3]).ok THEN CommandErr("InvalidStartTime")
    ELSE IF Len(f) < 4 THEN CommandErr("MissingEndTime")
    ELSE IF f[4] # <<>> /\ ~ParseInteger(f[4]).ok THEN CommandErr("InvalidEndTime")
    ELSE [ok |-> TRUE, easing |-> ParseCount(f[2]).val,
          start_time |-> ParseInteger(f[3]).val,
          end_time |-> IF f[4] = <<>> THEN <<>> ELSE <<ParseInteger(f[4]).val>>]

\* the command made of the first fields p and of its values
PropertyCommand(type, p, values) ==
    CommandOk([type |-> type, easing |-> p.easing, start_time |-> p.start_time,
               end_time |-> p.end_time, values |-> values, commands |-> <<>>])

\* the values from the i-th field on that follow the first keyframe
continuing_values(f, i, codec, invalid) ==
    IF ParseContinuing(f, i, codec).ok THEN CommandOk(ParseContinuing(f, i, codec).vals)
    ELSE CommandErr(invalid)

\* a command whose keyframe is one value: Fade, MoveX, MoveY, Scale, Rotate,
\* Parameter
one_value(f, type, codec, missing, invalid, invalid_continuing) ==
    and_then(easing_start_end_time(f), LAMBDA p :
    and_then(command_field(f, 5, codec, missing, invalid), LAMBDA a :
    and_then(continuing_values(f, 6, codec, invalid_continuing), LAMBDA c :
    PropertyCommand(type, p, <<a.val>> \o c.val))))

\* a command whose keyframe is a pair: Move, VectorScale
two_values(f, type, missing_x, invalid_x, missing_y, invalid_y, invalid_continuing) ==
    and_then(easing_start_end_time(f), LAMBDA p :
    and_then(command_field(f, 5, "Decimal", missing_x, invalid_x), LAMBDA x :
    and_then(command_field(f, 6, "Decimal", missing_y, invalid_y), LAMBDA y :
    and_then(continuing_values(f, 7, "Decimal", invalid_continuing), LAMBDA c :
    PropertyCommand(type, p, <<x.val, y.val>> \o c.val)))))

\* a Colour: its keyframe is red, green, blue
colour(f) ==
    and_then(easing_start_end_time(f), LAMBDA p :
    and_then(command_field(f, 5, "u8", "MissingRed", "InvalidRed"), LAMBDA red :
    and_then(command_field(f, 6, "u8", "MissingGreen", "InvalidGreen"), LAMBDA green :
    and_then(command_field(f, 7, "u8", "MissingBlue", "InvalidBlue"), LAMBDA blue :
    and_then(continuing_values(f, 8, "u8", "InvalidContinuingColours"), LAMBDA c :
    PropertyCommand("C", p, <<red.val, green.val, blue.val>> \o c.val))))))

\* `L,<start_time>,<loop_count>`
loop(f) ==
    and_then(command_field(f, 2, "Integer", "MissingStartTime", "InvalidStartTime"),
             LAMBDA start :
    and_then(command_field(f, 3, "Count", "MissingLoopCount", "InvalidLoopCount"),
             LAMBDA count :
    CommandOk([type |-> "L", start_time |-> start.val, loop_count |-> count.val,
               commands |-> <<>>])))

\* `T,<trigger_type>,<group_number?>,<start_time>,<end_time>`: the group
\* number is there when three fields or more follow the trigger type; g is
\* the number of its fields, 0 or 1
trigger_times(f, g, trigger_type, group_number) ==
    and_then(command_field(f, 3 + g, "Integer", "MissingStartTime", "InvalidStartTime"),
             LAMBDA start :
    and_then(command_field(f, 4 + g, "Integer", "MissingEndTime", "InvalidEndTime"),
             LAMBDA end :
    CommandOk([type |-> "T", trigger_type |-> trigger_type, group_number |-> group_number,
               start_time |-> start.val, end_time |-> end.val, commands |-> <<>>])))

trigger(f) ==
    and_then(command_field(f, 2, "TriggerType", "MissingTriggerType", "InvalidTriggerType"),
             LAMBDA type :
    IF Len(f) < 5 THEN trigger_times(f, 0, type.val, <<>>)
    ELSE and_then(command_field(f, 3, "Integer", "InvalidGroupNumber", "InvalidGroupNumber"),
                  LAMBDA group : trigger_times(f, 1, type.val, <<group.val>>)))

\* Command::from_str on the whole line: the indentation is skipped, the type
\* token chooses the command and the fields are read from left to right, so
\* that the leftmost offending field decides the error.
Command_from_str(line) ==
    Bind(SplitComma(Drop(line, IndentOf(line))), LAMBDA f :
    CASE f[1] = <<"F">> ->
           one_value(f, "F", "Decimal", "MissingStartOpacity", "InvalidStartOpacity",
                     "InvalidContinuingOpacities")
      [] f[1] = <<"M">> ->
           two_values(f, "M", "MissingMoveX", "InvalidMoveX", "MissingMoveY", "InvalidMoveY",
                      "InvalidContinuingMove")
      [] f[1] = <<"M", "X">> ->
           one_value(f, "MX", "Decimal", "MissingMoveX", "InvalidMoveX",
                     "InvalidContinuingMove")
      [] f[1] = <<"M", "Y">> ->
           one_value(f, "MY", "Decimal", "MissingMoveY", "InvalidMoveY",
                     "InvalidContinuingMove")
      [] f[1] = <<"S">> ->
           one_value(f, "S", "Decimal", "MissingStartScale", "InvalidStartScale",
                     "InvalidContinuingScale")
      [] f[1] = <<"V">> ->
           two_values(f, "V", "MissingScaleX", "InvalidScaleX", "MissingScaleY",
                      "InvalidScaleY", "InvalidContinuingScales")
      [] f[1] = <<"R">> ->
           one_value(f, "R", "Decimal", "MissingStartRotation", "InvalidStartRotation",
                     "InvalidContinuingRotation")
      [] f[1] = <<"C">> -> colour(f)
      [] f[1] = <<"P">> ->
           one_value(f, "P", "Parameter", "MissingParameterType", "InvalidParameterType",
                     "InvalidContinuingParameters")
      [] f[1] = <<"L">> -> loop(f)
      [] f[1] = <<"T">> -> trigger(f)
      [] OTHER -> CommandErr("UnknownCommandType"))

\* Object::try_push_cmd(cmd, indentation) on the object's command list:
\* depth 1 appends to the list; depth d > 1 follows the last children down to
\* the Loop/Trigger at depth d - 1 and appends to its children.  A failure is
\* InvalidIndentation(expected, indentation), expected the deepest depth the
\* chain of last children reaches.
\* PushAt going down the first child of each list instead of the last
RECURSIVE PushAt_first_child(_, _, _, _)
PushAt_first_child(commands, cmd, indentation, depth) ==
    IF depth = indentation THEN [ok |-> TRUE, commands |-> Append(commands, cmd)]
    ELSE IF commands = <<>> \/ ~IsContainer(commands[1])
    THEN [ok |-> FALSE, expected |-> depth]
    ELSE LET r == PushAt_first_child(commands[1].commands, cmd, indentation, depth + 1)
         IN IF r.ok
            THEN [ok |-> TRUE,
                  commands |-> [commands EXCEPT ![1] =
                                   [commands[1] EXCEPT !.commands = r.commands]]]
            ELSE r

RECURSIVE PushAt(_, _, _, _)
PushAt(commands, cmd, indentation, depth) ==
    IF depth = indentation THEN [ok |-> TRUE, commands |-> Append(commands, cmd)]
    ELSE IF commands = <<>> \/ ~IsContainer(commands[Len(commands)])
    THEN [ok |-> FALSE, expected |-> depth]
    ELSE LET last == commands[Len(commands)]
             r == PushAt(last.commands, cmd, indentation, depth + 1)
         IN IF r.ok
            THEN [ok |-> TRUE,
                  commands |-> [commands EXCEPT ![Len(commands)] =
                                   [last EXCEPT !.commands = r.commands]]]
            ELSE r

\* try_push_cmd appending to the object's own list whatever the depth
try_push_cmd_flat(object, cmd, indentation) ==
    [ok |-> TRUE, val |-> [object EXCEPT !.commands = Append(object.commands, cmd)]]

try_push_cmd(object, cmd, indentation) ==
    LET r == PushAt(object.commands, cmd, indentation, 1) IN
    IF r.ok THEN [ok |-> TRUE, val |-> [object EXCEPT !.commands = r.commands]]
    ELSE [ok |-> FALSE, expected |-> r.expected, actual |-> indentation]


(***************************************************************************)
(* Events::from_str: the body of `for (line_index, line) in                *)
(* s.lines().enumerate()`.  A step yields [ok |-> TRUE, events |-> ...] or *)
(* [ok |-> FALSE, err |-> Error::new(variant, line_index)].                *)
(***************************************************************************)
\* char::is_whitespace, the test of str::trim: the 25 characters with the
\* Unicode White_Space property, U+0009..U+000D, U+0020, U+0085, U+00A0,
\* U+1680, U+2000..U+200A, U+2028, U+2029, U+202F, U+205F and U+3000.
WhiteSpace ==
    {"\t", "\n", "", "\f", "\r", " ",
     "U+0085", "U+00A0", "U+1680",
     "U+2000", "U+2001", "U+2002", "U+2003", "U+2004", "U+2005", "U+2006",
     "U+2007", "U+2008", "U+2009", "U+200A",
     "U+2028", "U+2029", "U+202F", "U+205F", "U+3000"}

\* line.trim().is_empty()
IsBlank(line) == \A i \in 1..Len(line) : line[i] \in WhiteSpace

NoError == [variant |-> "", inner |-> "", line |-> 0, expected |-> 0, actual |-> 0]

\* Error::new(err, line_index)
Error_new(variant, inner, line_index) ==
    [ok |-> FALSE,
     err |-> [NoError EXCEPT !.variant = variant, !.inner = inner, !.line = line_index]]

Step_ok(events) == [ok |-> TRUE, events |-> events]

SLASHES == <<"/", "/">>

\* the comment text with its leading indentation characters dropped
comment_trim_start(line) ==
    Drop(Drop(line, Len(SLASHES)), IndentOf(Drop(line, Len(SLASHES))))

\* the comment text taken one character too early
comment_off_by_one(line) == Drop(line, Len(SLASHES) - 1)

\* preceded(tag("//"), rest): the text of a comment line
comment(line) == Drop(line, Len(SLASHES))

\* matches!(events.0.last_mut(), Some(Event::Storyboard(_))): the test is on the
\* last event only
HasObject(events) == events # <<>> /\ events[Len(events)].tag = "Storyboard"

\* the command branch with the command parsed before the owner is looked up
push_command_line_parse_first(events, line, line_index, indent) ==
    LET c == Command_from_str(line) IN
    IF ~c.ok THEN Error_new("CommandParseError", c.err, line_index)
    ELSE IF HasObject(events)
    THEN LET r == try_push_cmd(events[Len(events)].object, c.val, indent) IN
         IF ~r.ok
         THEN [ok |-> FALSE,
               err |-> [NoError EXCEPT !.variant = "CommandPushError",
                                       !.inner = "InvalidIndentation",
                                       !.line = line_index,
                                       !.expected = r.expected,
                                       !.actual = r.actual]]
         ELSE Step_ok([events EXCEPT ![Len(events)].object = r.val])
    ELSE Error_new("StoryboardCmdWithNoSprite", "", line_index)

\* the command branch with the command pushed on a copy of the owning
\* object that is appended to the events
push_command_line_onto_copy(events, line, line_index, indent) ==
    IF HasObject(events)
    THEN Bind(Command_from_str(line), LAMBDA c :
         IF ~c.ok THEN Error_new("CommandParseError", c.err, line_index)
         ELSE Bind(try_push_cmd(events[Len(events)].object, c.val, indent), LAMBDA r :
              IF ~r.ok
              THEN [ok |-> FALSE,
                    err |-> [NoError EXCEPT !.variant = "CommandPushError",
                                            !.inner = "InvalidIndentation",
                                            !.line = line_index,
                                            !.expected = r.expected,
                                            !.actual = r.actual]]
              ELSE Step_ok(Append(events, [events[Len(events)] EXCEPT !.object = r.val]))))
    ELSE Error_new("StoryboardCmdWithNoSprite", "", line_index)

\* the `if indent > 0` branch: a storyboard command line
push_command_line(events, line, line_index, indent) ==
    IF HasObject(events)
    THEN Bind(Command_from_str(line), LAMBDA c :
         IF ~c.ok THEN Error_new("CommandParseError", c.err, line_index)
         ELSE Bind(try_push_cmd(events[Len(events)].object, c.val, indent), LAMBDA r :
              IF ~r.ok
              THEN [ok |-> FALSE,
                    err |-> [NoError EXCEPT !.variant = "CommandPushError",
                                            !.inner = "InvalidIndentation",
                                            !.line = line_index,
                                            !.expected = r.expected,
                                            !.actual = r.actual]]
              ELSE Step_ok([events EXCEPT ![Len(events)].object = r.val])))
    ELSE Error_new("StoryboardCmdWithNoSprite", "", line_index)

\* the fallback after UnknownObjectType: the start time is read by
\* tuple((comma_field(), comma(), comma_field_type(), rest)), then the whole
\* line is parsed as EventParams
normal_event_line(events, line, line_index) ==
    Bind(comma_field(line), LAMBDA f :
    IF ~comma(f.rest) THEN Error_new("MissingStartTime", "", line_index)
    ELSE Bind(comma_field_type(Drop(f.rest, 1)), LAMBDA start_time :
         IF ~start_time.ok THEN Error_new("ParseStartTime", "", line_index)
         ELSE Bind(EventParams_from_str(line), LAMBDA p :
              IF ~p.ok THEN Error_new("EventParamsParseError", p.err, line_index)
              ELSE Step_ok(Append(events,
                                  [tag |-> "NormalEvent", start_time |-> start_time.val,
                                   event_params |-> p.val])))))

\* the fallback taken on every object error, not only on UnknownObjectType
object_or_normal_event_any_error(events, line, line_index) ==
    LET o == Object_from_str(line) IN
    IF o.ok THEN Step_ok(Append(events, [tag |-> "Storyboard", object |-> o.val]))
    ELSE normal_event_line(events, line, line_index)

\* the probe's error surfaced when the fallback fails too
object_or_normal_event_probe_error(events, line, line_index) ==
    LET o == Object_from_str(line) IN
    IF o.ok THEN Step_ok(Append(events, [tag |-> "Storyboard", object |-> o.val]))
    ELSE IF o.err = "UnknownObjectType" /\ normal_event_line(events, line, line_index).ok
    THEN normal_event_line(events, line, line_index)
    ELSE Error_new("StoryboardObjectParseError", o.err, line_index)

\* the `else` branch of `if indent > 0`: object first, normal event on
\* UnknownObjectType only
object_or_normal_event(events, line, line_index) ==
    Bind(Object_from_str(line), LAMBDA o :
    IF o.ok THEN Step_ok(Append(events, [tag |-> "Storyboard", object |-> o.val]))
    ELSE IF o.err = "UnknownObjectType" THEN normal_event_line(events, line, line_index)
    ELSE Error_new("StoryboardObjectParseError", o.err, line_index))

\* the loop body without the `!line.trim().is_empty()` test
from_str_line_no_blank_check(events, line, line_index) ==
    IF tag(SLASHES, line)
    THEN Step_ok(Append(events, [tag |-> "Comment", text |-> comment(line)]))
    ELSE IF IndentOf(line) > 0
    THEN push_command_line(events, line, line_index, IndentOf(line))
    ELSE object_or_normal_event(events, line, line_index)

\* the loop body with a comment put in front of the events read so far
from_str_line_comment_in_front(events, line, line_index) ==
    IF IsBlank(line) THEN Step_ok(events)
    ELSE IF tag(SLASHES, line)
    THEN Step_ok(<<[tag |-> "Comment", text |-> comment(line)]>> \o events)
    ELSE IF IndentOf(line) > 0
    THEN push_command_line(events, line, line_index, IndentOf(line))
    ELSE object_or_normal_event(events, line, line_index)

from_str_line(events, line, line_index) ==
    IF IsBlank(line) THEN Step_ok(events)
    ELSE IF tag(SLASHES, line)
    THEN Step_ok(Append(events, [tag |-> "Comment", text |-> comment(line)]))
    ELSE IF IndentOf(line) > 0
    THEN push_command_line(events, line, line_index, IndentOf(line))
    ELSE object_or_normal_event(events, line, line_index)

\* the whole loop over lines[from..], started with `events`
RECURSIVE from_str_loop(_, _, _)
from_str_loop(events, lines, i) ==
    IF i > Len(lines) THEN Step_ok(events)
    ELSE LET r == from_str_line(events, lines[i], i - 1) IN
         IF r.ok THEN from_str_loop(r.events, lines, i + 1) ELSE r

\* str::lines(): split at "\n", a "\r" before it stripped, no empty last line
RECURSIVE SplitLines(_, _, _)
SplitLines(s, i, cur) ==
    \* `cur` is the line begun before position i; the line runs up to the next
    \* "\n" (position j), one step for each line of the text
    IF i > Len(s) THEN (IF cur = <<>> THEN <<>> ELSE <<cur>>)
    ELSE IF \A j \in i..Len(s) : s[j] # "\n"
    THEN <<cur \o SubSeq(s, i, Len(s))>>
    ELSE LET j == CHOOSE j \in i..Len(s) :
                      s[j] = "\n" /\ \A k \in i..(j - 1) : s[k] # "\n"
             line == cur \o SubSeq(s, i, j - 1)
         IN <<IF line # <<>> /\ line[Len(line)] = "\r"
              THEN Take(line, Len(line) - 1) ELSE line>>
            \o SplitLines(s, j + 1, <<>>)

str_lines(s) == SplitLines(s, 1, <<>>)

\* Events::from_str(s, version): the version is not consulted
Events_from_str(s, v) == from_str_loop(<<>>, str_lines(s), 1)


(***************************************************************************)
(* The versioned normal events (normal_event/mod.rs): Background, Video,   *)
(* Break and ColourTransformation, each with its own from_str(s, version)  *)
(* and to_string(version).  A parse result is                              *)
(*   [ok |-> TRUE, panic |-> FALSE, val |-> event],                        *)
(*   [ok |-> FALSE, panic |-> FALSE, err |-> variant], or                  *)
(*   [ok |-> FALSE, panic |-> TRUE]  (an arithmetic overflow panicked).    *)
(* Integer arithmetic is i32: an overflowing `+` or `-` panics when the    *)
(* build has overflow checks and wraps in two's complement when not.       *)
(* A parse whose offset time is not an Integer has no known outcome.       *)
(***************************************************************************)
OLD_VERSION_TIME_OFFSET == 24

IsOldVersion(v) == v >= 3 /\ v <= 4

\* i32 `a + b` for b >= 0: past I32Max it panics under overflow checks and
\* otherwise wraps to a + b - 2^32 (computed without leaving the i32 range)
I32Add(a, b, checks) ==
    IF a <= I32Max - b THEN [panic |-> FALSE, val |-> a + b]
    ELSE IF checks THEN [panic |-> TRUE, val |-> 0]
    ELSE [panic |-> FALSE, val |-> I32Min + ((a - (I32Max - b)) - 1)]

\* i32 `a - b` for b >= 0: below I32Min it panics under overflow checks and
\* otherwise wraps to a - b + 2^32
I32Sub(a, b, checks) ==
    IF a >= I32Min + b THEN [panic |-> FALSE, val |-> a - b]
    ELSE IF checks THEN [panic |-> TRUE, val |-> 0]
    ELSE [panic |-> FALSE, val |-> I32Max - (((I32Min + b) - a) - 1)]

\* the legacy offset added to a parsed time, the inverse of the
\* `time - OLD_VERSION_TIME_OFFSET` of time_to_string.  The time is stored in
\* an Integer (i32); what the parser does when t + 24 is not an Integer is
\* written nowhere, and the result then only says so.
time_with_offset(t, v) ==
    IF ~IsOldVersion(v) THEN [fits |-> TRUE, val |-> t]
    ELSE IF t <= I32Max - OLD_VERSION_TIME_OFFSET
    THEN [fits |-> TRUE, val |-> t + OLD_VERSION_TIME_OFFSET]
    ELSE [fits |-> FALSE, val |-> 0]

\* time_to_string printing the stored time with the offset left in
time_to_string_keeps_offset(time, v, checks) ==
    [panic |-> FALSE, str |-> IntToString(time)]

\* time_to_string(time, version)
time_to_string(time, v, checks) ==
    LET t == IF IsOldVersion(v) THEN I32Sub(time, OLD_VERSION_TIME_OFFSET, checks)
             ELSE [panic |-> FALSE, val |-> time]
    IN [panic |-> t.panic, str |-> IF t.panic THEN <<>> ELSE IntToString(t.val)]

NEErr(e) == [ok |-> FALSE, panic |-> FALSE, err |-> e]
\* the parse of a time whose offset sum is not an Integer: no outcome known
NEOutside == [ok |-> FALSE, panic |-> FALSE, outside |-> TRUE]
IsOutside(r) == "outside" \in DOMAIN r
NEOk(val) == [ok |-> TRUE, panic |-> FALSE, val |-> val]

\* start_time_offset(invalid, version): context(invalid, comma_field_type())
\* mapped through the legacy offset
start_time_offset(s, invalid, v) ==
    LET t == comma_field_type(s) IN
    IF ~t.ok THEN NEErr(invalid)
    ELSE LET a == time_with_offset(t.val, v) IN
         IF ~a.fits THEN NEOutside
         ELSE [ok |-> TRUE, panic |-> FALSE, val |-> a.val, rest |-> t.rest]

\* end_time(invalid, version): context(invalid, consume_rest_type()) mapped
\* through the legacy offset
end_time(s, invalid, v) ==
    LET t == consume_rest_type(s) IN
    IF ~t.ok THEN NEErr(invalid)
    ELSE LET a == time_with_offset(t.val, v) IN
         IF ~a.fits THEN NEOutside ELSE NEOk(a.val)

\* file_name_and_position(missing_x, invalid_x, missing_y, invalid_y): the
\* file name up to the next comma, then either the end of the line (no
\* position) or `,x,y`
file_name_and_position(s) ==
    LET f == comma_field(s) IN
    IF f.rest = <<>> THEN [ok |-> TRUE, panic |-> FALSE, file_name |-> f.out, position |-> <<>>]
    ELSE LET x == comma_field_type(Drop(f.rest, 1)) IN
         IF ~x.ok THEN NEErr("InvalidX")
         ELSE IF ~comma(x.rest) THEN NEErr("MissingY")
         ELSE LET y == consume_rest_type(Drop(x.rest, 1)) IN
              IF ~y.ok THEN NEErr("InvalidY")
              ELSE [ok |-> TRUE, panic |-> FALSE, file_name |-> f.out,
                    position |-> <<x.val, y.val>>]

BACKGROUND_HEADER == <<"0">>
VIDEO_HEADER == <<"1">>
VIDEO_HEADER_LONG == <<"V", "i", "d", "e", "o">>
BREAK_HEADER == <<"2">>
BREAK_HEADER_LONG == <<"B", "r", "e", "a", "k">>
COLOUR_TRANSFORMATION_HEADER == <<"3">>

\* Background::from_str(s, _): the start time is the field as written
Background_from_str(s, v) ==
    IF ~tag(BACKGROUND_HEADER, s) THEN NEErr("WrongEventType")
    ELSE LET s1 == Drop(s, Len(BACKGROUND_HEADER)) IN
    IF ~comma(s1) THEN NEErr("MissingStartTime")
    ELSE LET t == comma_field_type(Drop(s1, 1)) IN
    IF ~t.ok THEN NEErr("InvalidStartTime")
    ELSE IF ~comma(t.rest) THEN NEErr("MissingFileName")
    ELSE LET fp == file_name_and_position(Drop(t.rest, 1)) IN
    IF ~fp.ok THEN fp
    ELSE NEOk([kind |-> "Background", start_time |-> t.val,
               file_name |-> fp.file_name, position |-> fp.position])

\* Background::to_string_cmd(version)
Background_to_string_cmd(e, v, checks) ==
    [panic |-> FALSE, none |-> FALSE,
     str |-> BACKGROUND_HEADER \o COMMA \o IntToString(e.start_time) \o COMMA
             \o e.file_name \o position_str(e.position)]

\* Video::from_str(s, version)
Video_from_str(s, v) ==
    IF ~tag(VIDEO_HEADER, s) /\ ~tag(VIDEO_HEADER_LONG, s) THEN NEErr("WrongEventType")
    ELSE LET short_hand == tag(VIDEO_HEADER, s)
             s1 == Drop(s, IF short_hand THEN Len(VIDEO_HEADER) ELSE Len(VIDEO_HEADER_LONG))
         IN
    IF ~comma(s1) THEN NEErr("MissingStartTime")
    ELSE LET t == start_time_offset(Drop(s1, 1), "InvalidStartTime", v) IN
    IF ~t.ok THEN t
    ELSE IF ~comma(t.rest) THEN NEErr("MissingFileName")
    ELSE LET fp == file_name_and_position(Drop(t.rest, 1)) IN
    IF ~fp.ok THEN fp
    ELSE NEOk([kind |-> "Video", start_time |-> t.val, file_name |-> fp.file_name,
               position |-> fp.position, short_hand |-> short_hand])

\* Video::to_string_cmd(version)
Video_to_string_cmd(e, v, checks) ==
    LET t == time_to_string(e.start_time, v, checks) IN
    [panic |-> t.panic, none |-> FALSE,
     str |-> IF t.panic THEN <<>>
             ELSE (IF e.short_hand THEN VIDEO_HEADER ELSE VIDEO_HEADER_LONG) \o COMMA
                  \o t.str \o COMMA \o e.file_name \o position_str(e.position)]

\* Break::from_str with the comma of the end time looked for before the
\* start time is converted
Break_from_str_missing_before_invalid(s, v) ==
    IF ~tag(BREAK_HEADER, s) /\ ~tag(BREAK_HEADER_LONG, s) THEN NEErr("WrongEventType")
    ELSE LET short_hand == tag(BREAK_HEADER, s)
             s1 == Drop(s, IF short_hand THEN Len(BREAK_HEADER) ELSE Len(BREAK_HEADER_LONG))
         IN
    IF ~comma(s1) THEN NEErr("MissingStartTime")
    ELSE IF ~comma(comma_field(Drop(s1, 1)).rest) THEN NEErr("MissingEndTime")
    ELSE LET t == start_time_offset(Drop(s1, 1), "InvalidStartTime", v) IN
    IF ~t.ok THEN t
    ELSE LET e == end_time(Drop(t.rest, 1), "InvalidEndTime", v) IN
    IF ~e.ok THEN e
    ELSE NEOk([kind |-> "Break", start_time |-> t.val, end_time |-> e.val,
               short_hand |-> short_hand])

\* Break::from_str(s, version)
Break_from_str(s, v) ==
    IF ~tag(BREAK_HEADER, s) /\ ~tag(BREAK_HEADER_LONG, s) THEN NEErr("WrongEventType")
    ELSE LET short_hand == tag(BREAK_HEADER, s)
             s1 == Drop(s, IF short_hand THEN Len(BREAK_HEADER) ELSE Len(BREAK_HEADER_LONG))
         IN
    IF ~comma(s1) THEN NEErr("MissingStartTime")
    ELSE LET t == start_time_offset(Drop(s1, 1), "InvalidStartTime", v) IN
    IF ~t.ok THEN t
    ELSE IF ~comma(t.rest) THEN NEErr("MissingEndTime")
    ELSE LET e == end_time(Drop(t.rest, 1), "InvalidEndTime", v) IN
    IF ~e.ok THEN e
    ELSE NEOk([kind |-> "Break", start_time |-> t.val, end_time |-> e.val,
               short_hand |-> short_hand])

\* to_string with the short header whatever the value holds
Break_to_string_always_short(e, v, checks) ==
    LET st == time_to_string(e.start_time, v, checks)
        et == time_to_string(e.end_time, v, checks)
    IN [panic |-> st.panic \/ et.panic, none |-> FALSE,
        str |-> IF st.panic \/ et.panic THEN <<>>
                ELSE BREAK_HEADER \o COMMA \o st.str \o COMMA \o et.str]

\* Break::to_string(version)
Break_to_string(e, v, checks) ==
    LET st == time_to_string(e.start_time, v, checks)
        et == time_to_string(e.end_time, v, checks)
    IN [panic |-> st.panic \/ et.panic, none |-> FALSE,
        str |-> IF st.panic \/ et.panic THEN <<>>
                ELSE (IF e.short_hand THEN BREAK_HEADER ELSE BREAK_HEADER_LONG) \o COMMA
                     \o st.str \o COMMA \o et.str]

\* ColourTransformation::from_str(s, version)
ColourTransformation_from_str(s, v) ==
    IF ~tag(COLOUR_TRANSFORMATION_HEADER, s) THEN NEErr("WrongEventType")
    ELSE LET s1 == Drop(s, Len(COLOUR_TRANSFORMATION_HEADER)) IN
    IF ~comma(s1) THEN NEErr("MissingStartTime")
    ELSE LET t == start_time_offset(Drop(s1, 1), "InvalidStartTime", v) IN
    IF ~t.ok THEN t
    ELSE IF ~comma(t.rest) THEN NEErr("MissingRed")
    ELSE LET r == comma_field_u8(Drop(t.rest, 1)) IN
    IF ~r.ok THEN NEErr("InvalidRed")
    ELSE IF ~comma(r.rest) THEN NEErr("MissingGreen")
    ELSE LET g == comma_field_u8(Drop(r.rest, 1)) IN
    IF ~g.ok THEN NEErr("InvalidGreen")
    ELSE IF ~comma(g.rest) THEN NEErr("MissingBlue")
    ELSE LET b == consume_rest_u8(Drop(g.rest, 1)) IN
    IF ~b.ok THEN NEErr("InvalidBlue")
    ELSE NEOk([kind |-> "ColourTransformation", start_time |-> t.val,
               red |-> r.val, green |-> g.val, blue |-> b.val])

\* ColourTransformation::to_string with version 14 still on the printing side
ColourTransformation_to_string_gate_off_by_one(e, v, checks) ==
    IF v <= 14
    THEN LET t == time_to_string(e.start_time, v, checks) IN
         [panic |-> t.panic, none |-> FALSE,
          str |-> IF t.panic THEN <<>>
                  ELSE COLOUR_TRANSFORMATION_HEADER \o COMMA \o t.str \o COMMA
                       \o IntToString(e.red) \o COMMA \o IntToString(e.green)
                       \o COMMA \o IntToString(e.blue)]
    ELSE [panic |-> FALSE, none |-> TRUE, str |-> <<>>]

\* ColourTransformation::to_string(version): None from version 14 on
ColourTransformation_to_string(e, v, checks) ==
    IF v < 14
    THEN LET t == time_to_string(e.start_time, v, checks) IN
         [panic |-> t.panic, none |-> FALSE,
          str |-> IF t.panic THEN <<>>
                  ELSE COLOUR_TRANSFORMATION_HEADER \o COMMA \o t.str \o COMMA
                       \o IntToString(e.red) \o COMMA \o IntToString(e.green)
                       \o COMMA \o IntToString(e.blue)]
    ELSE [panic |-> FALSE, none |-> TRUE, str |-> <<>>]


(***************************************************************************)
(* The parse of one section text, line by line, and its serialization.     *)
(***************************************************************************)
Versions == {3, 14}

\* The physical lines an input text is made of: blank lines, a comment with
\* blanks, a comma and an underscore in its text,
\* objects, commands at depths 1 and 2, the four normal events (a Background
\* without coordinates, with the coordinates 0,0, with 0,1 and with -3,4),
\* and malformed lines of each grammar.
LinePool ==
    {<<>>,
     <<" ", "\f", "U+3000">>,
     <<"/", "/", " ", ",", "_", " ">>,
     <<"S", "p", "r", "i", "t", "e", ",", "P", "a", "s", "s", ",", "C", "e", "n", "t", "r", "e", ",", "f", ",", "1", ",", "2">>,
     <<"A", "n", "i", "m", "a", "t", "i", "o", "n", ",", "F", "a", "i", "l", ",", "T", "o", "p", "L", "e", "f", "t", ",", "g", ",", "0", ",", "-", "3", ",", "2", ",", "5", ",", "L", "o", "o", "p", "O", "n", "c", "e">>,
     <<"S", "p", "r", "i", "t", "e", ",", "P", "a", "s", "s">>,
     <<" ", "F", ",", "0", ",", "1", ",", "2", ",", "3">>,
     <<"_", "L", ",", "0", ",", "2">>,
     <<" ", " ", "F", ",", "0", ",", "+", "1", ",", "2", ",", "3", ",", "4">>,
     <<" ", " ", "L", ",", "1", ",", "0">>,
     <<" ", "X">>,
     <<"0", ",", "0", ",", "a">>,
     <<"0", ",", "+", "1", ",", "a", ",", "0", ",", "1">>,
     <<"0", ",", "0", ",", "a", ",", "0", ",", "0">>,
     <<"0", ",", "0", ",", "b", "g", "2", ".", "j", "p", "g", ",", "0", ",", "1">>,
     <<"0", ",", "7", ",", "b", ",", "-", "3", ",", "4">>,
     <<"V", "i", "d", "e", "o", ",", "1", ",", "a">>,
     <<"2", ",", "1", ",", "2">>,
     <<"3", ",", "0", ",", "1", ",", "2", ",", "3">>,
     <<"x">>,
     <<"x", ",", "y">>,
     <<"x", ",", "1">>,
     <<"2", ",", "1">>,
     <<"0", "0", ",", "1", ",", "a">>}

VARIABLES
    version,    \* the version handed to from_str and to_string
    overflow_checks, \* whether the build panics on integer overflow (else wraps)
    lines,      \* the physical lines of the input consumed so far
    events,     \* the in-progress output `events.0`
    status,     \* "parsing", "err" (returned Err), "ok" (returned Ok), "serialized"
    err,        \* the Error returned, NoError before
    returned,   \* <<>> or <<events>>: the value of Ok(Some(events))
    out         \* the text to_string returned

vars == <<version, overflow_checks, lines, events, status, err, returned, out>>

Init ==
    /\ version \in Versions
    /\ overflow_checks = TRUE
    /\ lines = <<>>
    /\ events = <<>>
    /\ status = "parsing"
    /\ err = NoError
    /\ returned = <<>>
    /\ out = <<>>

\* the step r of the loop body skipped over when it failed
LineSkipped(line, r) ==
    /\ lines' = Append(lines, line)
    /\ IF r.ok THEN events' = r.events ELSE UNCHANGED events
    /\ UNCHANGED <<status, err>>

\* the loop going on after a failing line instead of returning its error
ProcessLine_skips_failure ==
    /\ status = "parsing"
    /\ Len(lines) < MaxLines
    /\ \E line \in LinePool : LineSkipped(line, from_str_line(events, line, Len(lines)))
    /\ UNCHANGED <<version, overflow_checks, returned, out>>

\* the step r of the loop body taken: Ok goes on with the next line, Err
\* returns (the `?` of the loop body)
LineOutcome(line, r) ==
    /\ lines' = Append(lines, line)
    /\ IF r.ok
       THEN events' = r.events /\ UNCHANGED <<status, err>>
       ELSE status' = "err" /\ err' = r.err /\ UNCHANGED events

\* one iteration of the loop on the next physical line; the first Err returns
ProcessLine ==
    /\ status = "parsing"
    /\ Len(lines) < MaxLines
    /\ \E line \in LinePool : LineOutcome(line, from_str_line(events, line, Len(lines)))
    /\ UNCHANGED <<version, overflow_checks, returned, out>>

\* the input is exhausted: Ok(Some(events))
EndOfInput ==
    /\ status = "parsing"
    /\ status' = "ok"
    /\ returned' = <<events>>
    /\ UNCHANGED <<version, overflow_checks, lines, events, err, out>>

\* Events::to_string(&self, version) on the returned value
Serialize ==
    /\ status = "ok"
    /\ out' = Events_to_string(returned[1])
    /\ status' = "serialized"
    /\ UNCHANGED <<version, overflow_checks, lines, events, err, returned>>

Next == ProcessLine \/ EndOfInput \/ Serialize

Spec == Init /\ [][Next]_vars


(***************************************************************************)
(* One Object line followed by up to MaxTreeLines command lines, each a    *)
(* Fade or a Loop at a depth of 1 to MaxDepth or a Trigger at depth 2,     *)
(* handed to the loop of Events::from_str one line at a time.              *)
(***************************************************************************)
TreeObjectLine ==
    <<"S", "p", "r", "i", "t", "e", ",", "P", "a", "s", "s", ",", "C", "e", "n", "t", "r",
      "e", ",", "f", ",", "1", ",", "2">>

\* a Fade without end time and a Loop
TreeCommandTexts ==
    {<<"F", ",", "0", ",", "1", ",", ",", "0", ".", "5">>,
     <<"L", ",", "0", ",", "2">>}

\* a Trigger, at depth 2
TreeTriggerLine ==
    <<" ", " ", "T", ",", "P", "a", "s", "s", "i", "n", "g", ",", "0", ",", "9">>

TreeLinePool ==
    {Repeat(" ", d) \o text : d \in 1..MaxDepth, text \in TreeCommandTexts}
    \cup {TreeTriggerLine}

InitTree ==
    /\ version = 14
    /\ overflow_checks = TRUE
    /\ lines = <<>>
    /\ events = <<>>
    /\ status = "parsing"
    /\ err = NoError
    /\ returned = <<>>
    /\ out = <<>>

\* the first iteration of the loop, on the Object line
ProcessObjectLine ==
    /\ status = "parsing"
    /\ lines = <<>>
    /\ LineOutcome(TreeObjectLine, from_str_line(events, TreeObjectLine, 0))
    /\ UNCHANGED <<version, overflow_checks, returned, out>>

\* one more iteration of the loop, on a command line
ProcessCommandLine ==
    /\ status = "parsing"
    /\ lines # <<>>
    /\ Len(lines) <= MaxTreeLines
    /\ \E line \in TreeLinePool : LineOutcome(line, from_str_line(events, line, Len(lines)))
    /\ UNCHANGED <<version, overflow_checks, returned, out>>

NextTree == ProcessObjectLine \/ ProcessCommandLine \/ EndOfInput \/ Serialize

SpecTree == InitTree /\ [][NextTree]_vars


(***************************************************************************)
(* One normal-event line handed to one of the four versioned parsers, and  *)
(* the value it returned serialized at the same version.                   *)
(***************************************************************************)
NormalEventVersions == {2, 3, 4, 5, 13, 14, 15}

\* Lines of each kind, well formed and malformed, with times at the ends of
\* the Integer range.
NormalEventPool ==
    {<<"0", ",", "1", "0", "0", ",", "a">>,
     <<"0", ",", "1", "0", "0", ",", "a", ",", "1", ",", "2">>,
     <<"0", ",", "+", "7", ",", "a">>,
     <<"1", ",", "1", "0", "0", ",", "v">>,
     <<"V", "i", "d", "e", "o", ",", "1", "0", "0", ",", "v", ",", "0", ",", "-", "1">>,
     <<"2", ",", "1", "0", "0", ",", "1", "6", "3">>,
     <<"B", "r", "e", "a", "k", ",", "1", "0", "0", ",", "1", "6", "3">>,
     <<"2", ",", "2", "1", "4", "7", "4", "8", "3", "6", "4", "7", ",", "5">>,
     <<"2", ",", "5", ",", "2", "1", "4", "7", "4", "8", "3", "6", "4", "7">>,
     <<"2", ",", "2", "1", "4", "7", "4", "8", "3", "6", "2", "3", ",", "2", "1", "4", "7", "4", "8", "3", "6", "2", "3">>,
     <<"2", ",", "-", "2", "1", "4", "7", "4", "8", "3", "6", "4", "8", ",", "0">>,
     <<"3", ",", "1", "0", "0", ",", "1", ",", "2", ",", "3">>,
     <<"3", ",", "2", "1", "4", "7", "4", "8", "3", "6", "4", "7", ",", "2", "5", "5", ",", "0", ",", "0">>,
     <<"3", ",", "1", "0", "0", ",", "2", "5", "6", ",", "0", ",", "0">>,
     <<"1", ",", "2", "1", "4", "7", "4", "8", "3", "6", "4", "0", ",", "v">>,
     <<"2", ",", "x", ",", "1">>,
     <<"2", ",", "x">>,
     <<"2", ",", "1", ",", "x">>,
     <<"B", "r", "e", "a", "k", ",", "1", ",", "2", ",", "3">>,
     <<"3", ",", "1", ",", "2", ",", "x">>,
     <<"2", ",", "1">>,
     <<"2">>,
     <<"x">>,
     <<"0", ",", "x", ",", "a">>,
     <<"1", ",", "1", ",", "v", ",", "1">>,
     <<"3", ",", "1", ",", "2">>}

InitNormalEvent ==
    /\ version \in NormalEventVersions
    /\ overflow_checks \in BOOLEAN
    /\ lines = <<>>
    /\ events = <<>>
    /\ status = "idle"
    /\ err = NoError
    /\ returned = <<>>
    /\ out = <<>>

\* the outcome r of `parser`::from_str on `line`: Ok(Some(value)), Err(e), a
\* panic inside the parser, or no known outcome ("outside")
FromStrOutcome(parser, line, r) ==
    /\ lines' = <<line>>
    /\ IF r.ok
       THEN /\ status' = "parsed"
            /\ returned' = <<r.val>>
            /\ UNCHANGED err
       ELSE IF r.panic
       THEN /\ status' = "panic"
            /\ err' = [NoError EXCEPT !.variant = "panic", !.inner = parser]
            /\ UNCHANGED returned
       ELSE IF IsOutside(r)
       THEN /\ status' = "outside"
            /\ err' = [NoError EXCEPT !.variant = "outside", !.inner = parser]
            /\ UNCHANGED returned
       ELSE /\ status' = "err"
            /\ err' = [NoError EXCEPT !.variant = parser, !.inner = r.err]
            /\ UNCHANGED returned
    /\ UNCHANGED <<version, overflow_checks, events, out>>

ParseBackground ==
    /\ status = "idle"
    /\ \E line \in NormalEventPool :
        FromStrOutcome("Background", line, Background_from_str(line, version))

ParseVideo ==
    /\ status = "idle"
    /\ \E line \in NormalEventPool :
        FromStrOutcome("Video", line, Video_from_str(line, version))

ParseBreak ==
    /\ status = "idle"
    /\ \E line \in NormalEventPool :
        FromStrOutcome("Break", line, Break_from_str(line, version))

ParseColourTransformation ==
    /\ status = "idle"
    /\ \E line \in NormalEventPool :
        FromStrOutcome("ColourTransformation", line,
                       ColourTransformation_from_str(line, version))

\* the outcome r of to_string(version) on the returned value:
\* Some(text), None or a panic inside time_to_string
ToStringOutcome(r) ==
    /\ IF r.panic THEN status' = "panic" /\ UNCHANGED out
       ELSE IF r.none THEN status' = "none" /\ UNCHANGED out
       ELSE status' = "serialized" /\ out' = r.str
    /\ UNCHANGED <<version, overflow_checks, lines, events, err, returned>>

SerializeBackground ==
    /\ status = "parsed"
    /\ returned[1].kind = "Background"
    /\ ToStringOutcome(Background_to_string_cmd(returned[1], version, overflow_checks))

SerializeVideo ==
    /\ status = "parsed"
    /\ returned[1].kind = "Video"
    /\ ToStringOutcome(Video_to_string_cmd(returned[1], version, overflow_checks))

SerializeBreak ==
    /\ status = "parsed"
    /\ returned[1].kind = "Break"
    /\ ToStringOutcome(Break_to_string(returned[1], version, overflow_checks))

SerializeColourTransformation ==
    /\ status = "parsed"
    /\ returned[1].kind = "ColourTransformation"
    /\ ToStringOutcome(ColourTransformation_to_string(returned[1], version, overflow_checks))

NextNormalEvent ==
    \/ ParseBackground
    \/ ParseVideo
    \/ ParseBreak
    \/ ParseColourTransformation
    \/ SerializeBackground
    \/ SerializeVideo
    \/ SerializeBreak
    \/ SerializeColourTransformation

SpecNormalEvent == InitNormalEvent /\ [][NextNormalEvent]_vars


(***************************************************************************)
(* One command line handed to Command::from_str.  The line is a type token *)
(* followed by up to MaxFields comma-separated fields, of which at most    *)
(* MaxOddFields are not `0`, or one of the lines of                        *)
(* tests/storyboard/cmds/error.rs.                                         *)
(***************************************************************************)
CommandTypeTokens ==
    {<<"F">>, <<"M">>, <<"M", "X">>, <<"M", "Y">>, <<"S">>, <<"V">>, <<"R">>, <<"C">>,
     <<"P">>, <<"L">>, <<"T">>, <<"f", "o", "o">>}

\* the field that every numeric codec accepts
PlainField == <<"0">>

\* a field that no codec accepts, an empty one, one that only the Decimal
\* codec accepts, a parameter type and a trigger type
OddFieldTexts ==
    {<<"f", "o", "o">>, <<>>, <<"0", ".", "5">>, <<"H">>,
     <<"P", "a", "s", "s", "i", "n", "g">>}

\* the sequences of n fields whose fields at `places` are odd ones
FieldSeqsAt(n, places) ==
    {[i \in 1..n |-> IF i \in places THEN odd[i] ELSE PlainField] :
        odd \in [places -> OddFieldTexts]}

FieldSeqs ==
    UNION {FieldSeqsAt(n, places) :
              n \in 0..MaxFields,
              places \in {q \in SUBSET (1..MaxFields) : Cardinality(q) <= MaxOddFields}}

\* the lines of storyboard_cmd_errors and of continuing_error, each with the
\* error the test expects
CommandErrorCases ==
    {<<<<"F">>, "MissingEasing">>,
     <<<<"F", ",", "t", "h", "i", "s", " ", "i", "s", " ", "w", "r", "o", "n", "g", "!",
         ",", "1", "2", "3">>, "InvalidEasing">>,
     <<<<"F", ",", "0">>, "MissingStartTime">>,
     <<<<"F", ",", "0", ",", "f", "o", "o">>, "InvalidStartTime">>,
     <<<<"F", ",", "0", ",", "0">>, "MissingEndTime">>,
     <<<<"F", ",", "0", ",", "0", ",", "f", "o", "o">>, "InvalidEndTime">>,
     <<<<"F", ",", "0", ",", "0", ",", "0">>, "MissingStartOpacity">>,
     <<<<"f", "o", "o", ",", "0", ",", "0", ",", "0", ",", "0", ",", "0", ",", "0">>,
       "UnknownCommandType">>,
     <<<<"L", ",", "0">>, "MissingLoopCount">>,
     <<<<"C", ",", "0", ",", "0", ",", "1", ",", "f", "o", "o">>, "InvalidRed">>,
     <<<<"C", ",", "0", ",", "0", ",", "1", ",", "2", "5", "5">>, "MissingGreen">>,
     <<<<"C", ",", "0", ",", "0", ",", "0", ",", "2", "5", "5", ",", "2", "5", "5", ",",
         "2", "5", "5", ",", "f", "o", "o">>, "InvalidContinuingColours">>,
     <<<<"V", ",", "0", ",", "0", ",", "0", ",", "0", ".", "5">>, "MissingScaleY">>,
     <<<<"M", ",", "0", ",", "0", ",", "0", ",", "1", "0", "0", ",", "-", "1", "0", "0",
         ",", "f", "o", "o">>, "InvalidContinuingMove">>}

CommandLinePool ==
    {JoinWith(<<type>> \o fields, COMMA) : type \in CommandTypeTokens, fields \in FieldSeqs}
    \cup {c[1] : c \in CommandErrorCases}

InitCommand ==
    /\ version = 14
    /\ overflow_checks = TRUE
    /\ lines = <<>>
    /\ events = <<>>
    /\ status = "idle"
    /\ err = NoError
    /\ returned = <<>>
    /\ out = <<>>

\* the outcome r of Command::from_str on `line`: Ok(command) or Err(e)
CommandOutcome(line, r) ==
    /\ lines' = <<line>>
    /\ IF r.ok
       THEN status' = "parsed" /\ returned' = <<r.val>> /\ UNCHANGED err
       ELSE /\ status' = "err"
            /\ err' = [NoError EXCEPT !.variant = "CommandParseError", !.inner = r.err]
            /\ UNCHANGED returned
    /\ UNCHANGED <<version, overflow_checks, events, out>>

\* line.parse::<Command>()
ParseCommand ==
    /\ status = "idle"
    /\ \E line \in CommandLinePool : CommandOutcome(line, Command_from_str(line))

\* Display of the parsed command
FormatCommand ==
    /\ status = "parsed"
    /\ out' = Command_fmt(returned[1])
    /\ status' = "serialized"
    /\ UNCHANGED <<version, overflow_checks, lines, events, err, returned>>

NextCommand == ParseCommand \/ FormatCommand

SpecCommand == InitCommand /\ [][NextCommand]_vars


(***************************************************************************)
(* hitobjects/types.rs: Volume(Option<u8>).  The held value is <<>> for    *)
(* None (the timing point's volume is used) and <<n>> for Some(n).         *)
(***************************************************************************)
VOLUME_MAX == 100

VolumeOk(volume) == [ok |-> TRUE, val |-> volume, err |-> ""]
VolumeErr(variant) == [ok |-> FALSE, val |-> <<>>, err |-> variant]

\* Volume::new(volume: Option<u8>)
Volume_new(volume) ==
    IF volume # <<>>
    THEN IF volume[1] = 0 THEN VolumeErr("VolumeTooLow")
         ELSE IF volume[1] > VOLUME_MAX THEN VolumeErr("VolumeTooHigh")
         ELSE VolumeOk(volume)
    ELSE VolumeOk(volume)

\* set_volume that keeps the lower bound only
Volume_set_volume_no_upper_bound(self, volume) ==
    IF volume = 0 THEN VolumeErr("VolumeTooLow")
    ELSE VolumeOk(<<volume>>)

\* Volume::set_volume(&mut self, volume: u8): val is self.0 after a call
\* that returned Ok(())
Volume_set_volume(self, volume) ==
    IF volume = 0 THEN VolumeErr("VolumeTooLow")
    ELSE IF volume > VOLUME_MAX THEN VolumeErr("VolumeTooHigh")
    ELSE VolumeOk(<<volume>>)

\* Volume::use_timing_point_volume(&self)
Volume_use_timing_point_volume(self) == self = <<>>

\* Volume::set_use_timing_point_volume(&mut self): self.0 afterwards
Volume_set_use_timing_point_volume(self) == <<>>

\* the text 0 is the timing point's volume, any other u8 goes to Volume::new
Volume_of_u8(r) ==
    IF ~r.ok THEN VolumeErr("ParseIntError")
    ELSE Volume_new(IF r.val = 0 THEN <<>> ELSE <<r.val>>)

\* <Volume as VersionedFromStr>::from_str(s, _)
Volume_from_str(s) == Volume_of_u8(ParseU8(s))

(***************************************************************************)
(* A Volume under a sequence of new, from_str, set_volume and              *)
(* set_use_timing_point_volume calls.  returned[1] is the Volume held,     *)
(* status the last call, lines its argument as text, err its error.        *)
(***************************************************************************)
VolumeArgs == {0, 1, 2, 50, 99, 100, 101, 102, 200, 255}

VolumeTexts ==
    {IntToString(n) : n \in VolumeArgs}
      \cup {<<"2", "5", "6">>, <<"-", "1">>, <<"+", "7">>, <<"x">>, <<>>}

\* VersionedDefault: Volume(None)
InitVolume ==
    /\ version = 14
    /\ overflow_checks = TRUE
    /\ lines = <<>>
    /\ events = <<>>
    /\ status = "idle"
    /\ err = NoError
    /\ returned = << <<>> >>
    /\ out = <<>>

\* the outcome r of a call `call` with the argument text `arg`: on Ok the
\* Volume held becomes r.val, on Err it is the one held before
VolumeOutcome(call, arg, r) ==
    /\ status' = call
    /\ lines' = arg
    /\ IF r.ok
       THEN returned' = <<r.val>> /\ err' = NoError
       ELSE /\ err' = [NoError EXCEPT !.variant = "VolumeSetError", !.inner = r.err]
            /\ UNCHANGED returned
    /\ UNCHANGED <<version, overflow_checks, events, out>>

\* volume = Volume::new(Some(v))? and volume = Volume::new(None)?
VolumeNew ==
    /\ Len(returned) = 1
    /\ \E volume \in {<<>>} \cup {<<v>> : v \in VolumeArgs} :
          VolumeOutcome("new",
                        IF volume = <<>> THEN <<>> ELSE <<IntToString(volume[1])>>,
                        Volume_new(volume))

\* volume = Volume::from_str(s, version)?
VolumeFromStr ==
    /\ Len(returned) = 1
    /\ \E s \in VolumeTexts : VolumeOutcome("from_str", <<s>>, Volume_from_str(s))

\* volume.set_volume(v)
VolumeSetVolume ==
    /\ Len(returned) = 1
    /\ \E v \in VolumeArgs :
          VolumeOutcome("set_volume", <<IntToString(v)>>,
                        Volume_set_volume(returned[1], v))

\* volume.set_use_timing_point_volume()
VolumeSetUseTimingPointVolume ==
    /\ Len(returned) = 1
    /\ VolumeOutcome("set_use_timing_point_volume", <<>>,
                     VolumeOk(Volume_set_use_timing_point_volume(returned[1])))

NextVolume ==
    VolumeNew \/ VolumeFromStr \/ VolumeSetVolume \/ VolumeSetUseTimingPointVolume

SpecVolume == InitVolume /\ [][NextVolume]_vars


(***************************************************************************)
(* Event::fmt of a Storyboard event, one loop iteration at a time: the     *)
(* `for` loop over the object's commands and the inner `loop` with its     *)
(* explicit stack.  Indices are those of the code (from 0).                *)
(***************************************************************************)
\* Number of commands of the command forest of an object.
MaxCommands == 4

\* a Fade and a Loop told apart from every other command by start_time
FadeCommand(k) ==
    [type |-> "F", easing |-> 0, start_time |-> k, end_time |-> <<k>>,
     values |-> <<<<"1">>>>, commands |-> <<>>]

LoopCommand(k, commands) ==
    [type |-> "L", start_time |-> k, loop_count |-> 1, commands |-> commands]

\* the forests (trees) of n commands, numbered from k in pre-order; a Loop
\* may have no children
RECURSIVE CommandForests(_, _)
RECURSIVE CommandTrees(_, _)
CommandTrees(n, k) ==
    (IF n = 1 THEN {FadeCommand(k)} ELSE {})
      \cup {LoopCommand(k, c) : c \in CommandForests(n - 1, k + 1)}

CommandForests(n, k) ==
    IF n = 0 THEN {<<>>}
    ELSE UNION {{<<t>> \o rest : t \in CommandTrees(m, k),
                                 rest \in CommandForests(n - m, k + m)} : m \in 1..n}

WalkSprite(commands) ==
    [tag |-> "Storyboard",
     object |-> [layer |-> <<"P", "a", "s", "s">>,
                 origin |-> <<"C", "e", "n", "t", "r", "e">>,
                 position |-> <<1, 2>>,
                 object_type |-> [kind |-> "Sprite", filepath |-> <<"f">>],
                 commands |-> commands]]

\* the locals of the `cmds` block: i counts the commands the `for` loop has
\* taken, the others are the variables of the same name
Locals(i, indentation, starting_indentation, current_cmds, current_index, cmds_stack) ==
    [i |-> i, indentation |-> indentation,
     starting_indentation |-> starting_indentation,
     current_cmds |-> current_cmds, current_index |-> current_index,
     cmds_stack |-> cmds_stack]

WalkResult(st, locals, builder) == [status |-> st, locals |-> locals, builder |-> builder]

\* one iteration of `for cmd in &object.commands`, up to the inner `loop`
ForIteration(commands, f, builder) ==
    IF IsContainer(commands[f.i + 1]) /\ commands[f.i + 1].commands # <<>>
    THEN WalkResult("loop",
                    Locals(f.i + 1, f.indentation + 1, f.indentation,
                           commands[f.i + 1].commands, 0, <<>>),
                    Append(builder, Repeat(" ", f.indentation)
                                    \o Command_fmt(commands[f.i + 1])))
    ELSE WalkResult("for",
                    [f EXCEPT !.i = f.i + 1],
                    Append(builder, Repeat(" ", f.indentation)
                                    \o Command_fmt(commands[f.i + 1])))

\* the iteration with the indentation of the popped frame dropped
LoopBody_pop_keeps_indentation(f, cmd, current_index, builder) ==
    IF IsContainer(cmd) /\ cmd.commands # <<>>
    THEN WalkResult("loop",
                    [f EXCEPT !.current_cmds = cmd.commands,
                              !.current_index = 0,
                              !.indentation = f.indentation + 1,
                              !.cmds_stack =
                                  IF current_index < Len(f.current_cmds)
                                  THEN Append(f.cmds_stack,
                                              <<f.current_cmds, current_index, f.indentation>>)
                                  ELSE f.cmds_stack],
                    builder)
    ELSE IF current_index >= Len(f.current_cmds)
         THEN IF f.cmds_stack # <<>>
              THEN WalkResult("loop",
                              [f EXCEPT !.current_cmds = f.cmds_stack[Len(f.cmds_stack)][1],
                                        !.current_index = f.cmds_stack[Len(f.cmds_stack)][2],
                                        !.cmds_stack = Take(f.cmds_stack, Len(f.cmds_stack) - 1)],
                              builder)
              ELSE WalkResult("for",
                              Locals(f.i, f.starting_indentation, f.starting_indentation,
                                     <<>>, 0, <<>>),
                              builder)
         ELSE WalkResult("loop", [f EXCEPT !.current_index = current_index], builder)

\* the iteration with a frame pushed for every container entered
LoopBody_push_always(f, cmd, current_index, builder) ==
    IF IsContainer(cmd) /\ cmd.commands # <<>>
    THEN WalkResult("loop",
                    [f EXCEPT !.current_cmds = cmd.commands,
                              !.current_index = 0,
                              !.indentation = f.indentation + 1,
                              !.cmds_stack =
                                  Append(f.cmds_stack,
                                         <<f.current_cmds, current_index, f.indentation>>)],
                    builder)
    ELSE IF current_index >= Len(f.current_cmds)
         THEN IF f.cmds_stack # <<>>
              THEN WalkResult("loop",
                              [f EXCEPT !.current_cmds = f.cmds_stack[Len(f.cmds_stack)][1],
                                        !.current_index = f.cmds_stack[Len(f.cmds_stack)][2],
                                        !.indentation = f.cmds_stack[Len(f.cmds_stack)][3],
                                        !.cmds_stack = Take(f.cmds_stack, Len(f.cmds_stack) - 1)],
                              builder)
              ELSE WalkResult("for",
                              Locals(f.i, f.starting_indentation, f.starting_indentation,
                                     <<>>, 0, <<>>),
                              builder)
         ELSE WalkResult("loop", [f EXCEPT !.current_index = current_index], builder)

\* the `match &cmd.properties` of the inner `loop`: cmd is the command read,
\* current_index the index after `current_index += 1`, builder the lines
\* with the line of cmd pushed
LoopBody(f, cmd, current_index, builder) ==
    IF IsContainer(cmd) /\ cmd.commands # <<>>
    THEN WalkResult("loop",
                    [f EXCEPT !.current_cmds = cmd.commands,
                              !.current_index = 0,
                              !.indentation = f.indentation + 1,
                              !.cmds_stack =
                                  IF current_index < Len(f.current_cmds)
                                  THEN Append(f.cmds_stack,
                                              <<f.current_cmds, current_index, f.indentation>>)
                                  ELSE f.cmds_stack],
                    builder)
    ELSE IF current_index >= Len(f.current_cmds)
         THEN IF f.cmds_stack # <<>>
              THEN WalkResult("loop",
                              [f EXCEPT !.current_cmds = f.cmds_stack[Len(f.cmds_stack)][1],
                                        !.current_index = f.cmds_stack[Len(f.cmds_stack)][2],
                                        !.indentation = f.cmds_stack[Len(f.cmds_stack)][3],
                                        !.cmds_stack = Take(f.cmds_stack, Len(f.cmds_stack) - 1)],
                              builder)
              ELSE WalkResult("for",
                              Locals(f.i, f.starting_indentation, f.starting_indentation,
                                     <<>>, 0, <<>>),
                              builder)
         ELSE WalkResult("loop", [f EXCEPT !.current_index = current_index], builder)

\* one iteration of the inner `loop`; `&current_cmds[current_index]` panics
\* on an index that is not below the length
LoopIteration(f, builder) ==
    IF f.current_index >= Len(f.current_cmds) THEN WalkResult("panic", f, builder)
    ELSE LoopBody(f, f.current_cmds[f.current_index + 1], f.current_index + 1,
                  Append(builder, Repeat(" ", f.indentation)
                                  \o Command_fmt(f.current_cmds[f.current_index + 1])))

\* the event, with the `cmds` block at its first statement: events[1] is the
\* Storyboard event, returned[1] the locals, lines the builder
InitWalk ==
    /\ version = 14
    /\ overflow_checks = TRUE
    /\ lines = <<>>
    /\ events \in {<<WalkSprite(c)>> : c \in UNION {CommandForests(n, 1) : n \in 0..MaxCommands}}
    /\ status = "for"
    /\ err = NoError
    /\ returned = <<Locals(0, 1, 1, <<>>, 0, <<>>)>>
    /\ out = <<>>

WalkOutcome(r) ==
    /\ status' = r.status
    /\ returned' = <<r.locals>>
    /\ lines' = r.builder
    /\ UNCHANGED <<version, overflow_checks, events, err, out>>

ForStep ==
    /\ status = "for"
    /\ returned[1].i < Len(events[1].object.commands)
    /\ WalkOutcome(ForIteration(events[1].object.commands, returned[1], lines))

LoopStep ==
    /\ status = "loop"
    /\ WalkOutcome(LoopIteration(returned[1], lines))

\* Some(builder.join("\n")) and the final format!, None for no command
JoinLines ==
    /\ status = "for"
    /\ returned[1].i >= Len(events[1].object.commands)
    /\ out' = IF events[1].object.commands = <<>>
              THEN Object_header(events[1].object)
              ELSE Object_header(events[1].object) \o NEWLINE \o JoinWith(lines, NEWLINE)
    /\ status' = "done"
    /\ UNCHANGED <<version, overflow_checks, lines, events, err, returned>>

NextWalk == ForStep \/ LoopStep \/ JoinLines

SpecWalk == InitWalk /\ [][NextWalk]_vars

\* the loops run as long as they have an iteration to run
SpecWalkFair == SpecWalk /\ WF_vars(NextWalk)


(***************************************************************************)
(* timingpoints/mod.rs: TimingPoint::from_str.  The codecs of the field    *)
(* types (timingpoints/types.rs) parse an integer, as their error types    *)
(* in timingpoints/error.rs wrap a ParseIntError.                          *)
(***************************************************************************)
TIMING_POINT_FIELDS == 8

TPOk(val) == [ok |-> TRUE, panic |-> FALSE, val |-> val]
TPErr(e) == [ok |-> FALSE, panic |-> FALSE, err |-> e]
TPPanic == [ok |-> FALSE, panic |-> TRUE]

\* SampleSet::from_str, SampleIndex::from_str
TimingPoint_SampleSet_from_str(f) == ParseInteger(f)
TimingPoint_SampleIndex_from_str(f) == ParseInteger(f)

\* Volume::from_str and Effects::from_str of the timing points
TimingPoint_Volume_from_str(f) == ParseU8(f)
Effects_from_str(f) == ParseU8(f)

\* `match split_by_comma[6]`
ParseUninherited(f) ==
    IF f = <<"0">> THEN [ok |-> TRUE, val |-> FALSE]
    ELSE IF f = <<"1">> THEN [ok |-> TRUE, val |-> TRUE]
    ELSE [ok |-> FALSE, val |-> FALSE]

\* r.map_err(|_| e)?: the value of r handed to the rest of the struct
\* literal, or e returned
map_err_then(r, e, Rest(_)) == IF r.ok THEN Rest(r.val) ELSE TPErr(e)

\* the time of the struct literal: the legacy offset is a plain i32 addition
TimingPoint_time(t, v, checks, Rest(_)) ==
    IF IsOldVersion(v)
    THEN Bind(I32Add(t, OLD_VERSION_TIME_OFFSET, checks),
              LAMBDA a : IF a.panic THEN TPPanic ELSE Rest(a.val))
    ELSE Rest(t)

\* <TimingPoint as VersionedFromStr>::from_str(s, version): the fields of
\* the struct literal are evaluated in the order they are written
TimingPoint_from_str(s, v, checks) ==
    Bind(SplitComma(s), LAMBDA f :
    IF Len(f) # TIMING_POINT_FIELDS THEN TPErr("InvalidFieldCount")
    ELSE
    map_err_then(ParseInteger(f[1]), "InvalidTime", LAMBDA t :
    TimingPoint_time(t, v, checks, LAMBDA time :
    map_err_then(ParseDecimal(f[2]), "InvalidBeatLength", LAMBDA beat_length :
    map_err_then(ParseInteger(f[3]), "InvalidMeter", LAMBDA meter :
    map_err_then(TimingPoint_SampleSet_from_str(f[4]), "InvalidSampleSet", LAMBDA sample_set :
    map_err_then(TimingPoint_SampleIndex_from_str(f[5]), "InvalidSampleIndex", LAMBDA sample_index :
    map_err_then(TimingPoint_Volume_from_str(f[6]), "InvalidVolume", LAMBDA volume :
    map_err_then(ParseUninherited(f[7]), "InvalidUninherited", LAMBDA uninherited :
    map_err_then(Effects_from_str(f[8]), "InvalidVolume", LAMBDA effects :
    TPOk([time |-> time, beat_length |-> beat_length, meter |-> meter,
          sample_set |-> sample_set, sample_index |-> sample_index,
          volume |-> volume, uninherited |-> uninherited,
          effects |-> effects])))))))))))

(***************************************************************************)
(* One line handed to TimingPoint::from_str: a time and 6 to 8 more        *)
(* fields, each a text every codec accepts or one that none accepts.       *)
(***************************************************************************)
TimingPointVersions == {3, 14}

TimeTexts == {<<"1">>, <<"x">>, IntToString(I32Max)}

TimingPointFieldTexts == {<<"1">>, <<"x">>}

TimingPointFieldSeqs ==
    UNION {[1..n -> TimingPointFieldTexts] :
             n \in (TIMING_POINT_FIELDS - 2)..TIMING_POINT_FIELDS}

InitTimingPoint ==
    /\ version \in TimingPointVersions
    /\ overflow_checks \in BOOLEAN
    /\ lines = <<>>
    /\ events = <<>>
    /\ status = "idle"
    /\ err = NoError
    /\ returned = <<>>
    /\ out = <<>>

\* line.parse(): Ok(Some(timing_point)), Err(e) or a panic in the addition
ParseTimingPoint ==
    /\ status = "idle"
    /\ \E time \in TimeTexts : \E fields \in TimingPointFieldSeqs :
          FromStrOutcome("TimingPoint",
                         JoinWith(<<time>> \o fields, COMMA),
                         TimingPoint_from_str(JoinWith(<<time>> \o fields, COMMA),
                                              version, overflow_checks))

NextTimingPoint == ParseTimingPoint

SpecTimingPoint == InitTimingPoint /\ [][NextTimingPoint]_vars


(***************************************************************************)
(* hitobjects: the type number of a hit object (HitObjectTypeNumber,       *)
(* HitObject::type_to_string) and ComboSkipCount.  A u8 is a number in     *)
(* 0..U8Max.                                                               *)
(***************************************************************************)
\* u8 `a >> k`, `a << k` (k < 8) and `a | b`
Shr(a, k) == a \div (2 ^ k)
Shl(a, k) == (a * (2 ^ k)) % (U8Max + 1)

RECURSIVE BitOr(_, _)
BitOr(a, b) ==
    IF a = 0 THEN b
    ELSE IF b = 0 THEN a
    ELSE (IF a % 2 = 1 \/ b % 2 = 1 THEN 1 ELSE 0) + 2 * BitOr(a \div 2, b \div 2)

\* `a & 1` and `a & 0b111`
LowBit(a) == a % 2
LowThreeBits(a) == a % 8

COMBO_SKIP_COUNT_MAX == 7

CountOk(val) == [ok |-> TRUE, val |-> val, err |-> ""]
CountErr(e) == [ok |-> FALSE, val |-> 0, err |-> e]

\* <ComboSkipCount as TryFrom<u8>>::try_from(type_number): bits 4 to 6 of
\* the argument
ComboSkipCount_try_from(type_number) ==
    IF LowThreeBits(Shr(type_number, 4)) > COMBO_SKIP_COUNT_MAX
    THEN CountErr("ComboSkipCountTooHigh")
    ELSE CountOk(LowThreeBits(Shr(type_number, 4)))

\* ComboSkipCount::get
ComboSkipCount_get(self) == self

\* The results <ComboSkipCount as VersionedTryFrom<u8>>::try_from(count,
\* version) can return.  new hands its result back as it is, so its type is
\* Result<Option<ComboSkipCount>, ComboSkipCountTooHigh>; the impl is not
\* part of the source tree, so which of the results a count gets is left
\* open: Err, Ok(None), or Ok(Some(c)) for any u8 c.
ComboSkipCount_versioned_try_from(count, v) ==
    {[ok |-> FALSE, some |-> FALSE, val |-> 0],
     [ok |-> TRUE, some |-> FALSE, val |-> 0]}
      \cup {[ok |-> TRUE, some |-> TRUE, val |-> c] : c \in 0..U8Max}

\* ComboSkipCount::new(count, version), r the result of try_from
ComboSkipCount_new(r) == r

\* ComboSkipCount::set(&mut self, count, version), r the result of try_from:
\* `?` returns the Err before the assignment, unwrap panics on None
ComboSkipCount_set(self, r) ==
    IF ~r.ok THEN [result |-> "Err", self |-> self]
    ELSE IF ~r.some THEN [result |-> "panic", self |-> self]
    ELSE [result |-> "Ok", self |-> r.val]

\* `match true { hitcircle => .., slider => .., spinner => ..,
\* mania_hold_note => .. }`: the arms are identifier patterns, each binds the
\* scrutinee and matches, so the first arm is the one taken
MatchObjType(hitcircle, slider, spinner, mania_hold_note) == "HitCircle"

TypeNumber(number, new_combo, combo_skip_count, obj_type) ==
    [number |-> number, new_combo |-> new_combo,
     combo_skip_count |-> combo_skip_count, obj_type |-> obj_type]

\* from_str after value.parse::<u8>() and ComboSkipCount::try_from(number)?
TypeNumberOf(number, hitcircle, slider, spinner, mania_hold_note, combo_skip_count) ==
    IF ~combo_skip_count.ok THEN CountErr("ComboSkipCountTooHigh")
    ELSE IF hitcircle + slider + spinner + mania_hold_note # 1
    THEN CountErr("InvalidObjType")
    ELSE CountOk(TypeNumber(number, LowBit(Shr(number, 2)) # 0, combo_skip_count.val,
                            MatchObjType(hitcircle, slider, spinner, mania_hold_note)))

\* <HitObjectTypeNumber as FromStr>::from_str(value)
HitObjectTypeNumber_from_str(value) ==
    IF ~ParseU8(value).ok THEN CountErr("ParseValueError")
    ELSE Bind(ParseU8(value).val, LAMBDA number :
         TypeNumberOf(number, LowBit(Shr(number, 0)), LowBit(Shr(number, 1)),
                      LowBit(Shr(number, 3)), LowBit(Shr(number, 7)),
                      ComboSkipCount_try_from(number)))

\* the flag of the object's parameters in type_to_string
ObjParamsFlag(obj_params) ==
    CASE obj_params = "HitCircle" -> 1
      [] obj_params = "Slider" -> 2
      [] obj_params = "Spinner" -> 8
      [] obj_params = "OsuManiaHold" -> 128

\* HitObject::type_to_string(&self)
HitObject_type_to_string(obj_params, new_combo, combo_skip_count) ==
    IntToString(BitOr(BitOr(ObjParamsFlag(obj_params), IF new_combo THEN 4 ELSE 0),
                      Shl(ComboSkipCount_get(combo_skip_count), 4)))

(***************************************************************************)
(* The type field of a hit object line parsed and written back.            *)
(***************************************************************************)
TypeNumberTexts ==
    {IntToString(n) : n \in 0..U8Max}
      \cup {IntToString(U8Max + 1), <<"x">>, <<>>, <<"-", "1">>}

InitTypeNumber ==
    /\ version = 14
    /\ overflow_checks = TRUE
    /\ lines = <<>>
    /\ events = <<>>
    /\ status = "idle"
    /\ err = NoError
    /\ returned = <<>>
    /\ out = <<>>

\* the outcome r of from_str on the text `value`
TypeNumberOutcome(value, r) ==
    /\ lines' = <<value>>
    /\ IF r.ok
       THEN status' = "parsed" /\ returned' = <<r.val>> /\ UNCHANGED err
       ELSE /\ status' = "err"
            /\ err' = [NoError EXCEPT !.variant = "ParseHitObjectTypeNumberError",
                                      !.inner = r.err]
            /\ UNCHANGED returned
    /\ UNCHANGED <<version, overflow_checks, events, out>>

\* split[3].parse::<HitObjectTypeNumber>()
ParseTypeNumber ==
    /\ status = "idle"
    /\ \E value \in TypeNumberTexts :
          TypeNumberOutcome(value, HitObjectTypeNumber_from_str(value))

\* the counts handed to set
SetCounts == {COMBO_SKIP_COUNT_MAX, COMBO_SKIP_COUNT_MAX + 1}

\* the outcome r of combo_skip_count.set(count, version) on the HitObject
SetOutcome(r) ==
    /\ status' = IF r.result = "panic" THEN "panic" ELSE "set"
    /\ returned' = <<[returned[1] EXCEPT !.combo_skip_count = r.self]>>
    /\ err' = IF r.result = "Err"
              THEN [NoError EXCEPT !.variant = "ComboSkipCountTooHigh"]
              ELSE NoError
    /\ UNCHANGED <<version, overflow_checks, lines, events, out>>

\* combo_skip_count.set(count, version) on the HitObject that was parsed,
\* any number of times before it is written
SetComboSkipCount ==
    /\ status \in {"parsed", "set"}
    /\ \E count \in SetCounts :
          \E r \in ComboSkipCount_versioned_try_from(count, version) :
             SetOutcome(ComboSkipCount_set(returned[1].combo_skip_count, r))

\* type_to_string of the HitObject built from the type number: obj_params of
\* the kind of obj_type, new_combo as parsed and the combo_skip_count the
\* object holds; "serialized" is the text of the object as parsed, "written"
\* the text of an object set was called on
WriteTypeNumber ==
    /\ status \in {"parsed", "set"}
    /\ out' = HitObject_type_to_string(returned[1].obj_type, returned[1].new_combo,
                                       returned[1].combo_skip_count)
    /\ status' = IF status = "parsed" THEN "serialized" ELSE "written"
    /\ UNCHANGED <<version, overflow_checks, lines, events, err, returned>>

NextTypeNumber == ParseTypeNumber \/ SetComboSkipCount \/ WriteTypeNumber

SpecTypeNumber == InitTypeNumber /\ [][NextTypeNumber]_vars

(***************************************************************************)
(* Video and Break values parsed from a line or built with new, and then   *)
(* written: the versioned types of normal_event/mod.rs and the             *)
(* EventParams of events/mod.rs.                                           *)
(***************************************************************************)
\* normal_event: Video::new(start_time, file_name, position)
Video_new(start_time, file_name, position) ==
    [kind |-> "Video", start_time |-> start_time, file_name |-> file_name,
     position |-> position, short_hand |-> TRUE]

\* normal_event: Break::new(start_time, end_time), end for end_time
Break_new(start_time, end) ==
    [kind |-> "Break", start_time |-> start_time, end_time |-> end,
     short_hand |-> TRUE]

\* events: Video::new(filename, position)
EventParams_Video_new(filename, position) ==
    [kind |-> "Video", filename |-> filename, position |-> position, short_hand |-> TRUE]

\* events: Break::new(end_time), end for end_time
EventParams_Break_new(end) ==
    [kind |-> "Break", end_time |-> end, short_hand |-> TRUE]

\* the arguments of new
NewTimes == {0, 163}
NewFileNames == {<<"v">>}
NewPositions == {<<>>, <<0, -1>>}

\* a value built with new instead of parsed: no line was read
ValueBuilt(value) ==
    /\ status' = "built"
    /\ returned' = <<value>>
    /\ UNCHANGED <<version, overflow_checks, lines, events, err, out>>

NewVideo ==
    /\ status = "idle"
    /\ \E t \in NewTimes : \E f \in NewFileNames : \E p \in NewPositions :
          ValueBuilt(Video_new(t, f, p))

NewBreak ==
    /\ status = "idle"
    /\ \E t \in NewTimes : \E e \in NewTimes : ValueBuilt(Break_new(t, e))

\* to_string(version) of the value built
WriteBuilt ==
    /\ status = "built"
    /\ ToStringOutcome(IF returned[1].kind = "Video"
                       THEN Video_to_string_cmd(returned[1], version, overflow_checks)
                       ELSE Break_to_string(returned[1], version, overflow_checks))

\* the Event of a line read by the loop body of Events::from_str
EventLineOutcome(line, r) ==
    /\ lines' = <<line>>
    /\ IF r.ok
       THEN status' = "read" /\ events' = r.events /\ UNCHANGED err
       ELSE status' = "err" /\ err' = r.err /\ UNCHANGED events
    /\ UNCHANGED <<version, overflow_checks, returned, out>>

ReadEventLine ==
    /\ status = "idle"
    /\ \E line \in NormalEventPool : EventLineOutcome(line, from_str_line(<<>>, line, 0))

\* Event::NormalEvent { start_time, event_params } with the parameters built
\* with new
NewEventParams ==
    /\ status = "idle"
    /\ \E t \in NewTimes :
       \E p \in {EventParams_Video_new(f, q) : f \in NewFileNames, q \in NewPositions}
                  \cup {EventParams_Break_new(e) : e \in NewTimes} :
          events' = <<[tag |-> "NormalEvent", start_time |-> t, event_params |-> p]>>
    /\ status' = "read"
    /\ UNCHANGED <<version, overflow_checks, lines, err, returned, out>>

\* Display of the Event
WriteEvent ==
    /\ status = "read"
    /\ events # <<>>
    /\ out' = Event_fmt(events[1])
    /\ status' = "serialized"
    /\ UNCHANGED <<version, overflow_checks, lines, events, err, returned>>

NextHeader ==
    \/ ParseVideo
    \/ ParseBreak
    \/ SerializeVideo
    \/ SerializeBreak
    \/ NewVideo
    \/ NewBreak
    \/ WriteBuilt
    \/ ReadEventLine
    \/ NewEventParams
    \/ WriteEvent

SpecHeader == InitNormalEvent /\ [][NextHeader]_vars


(***************************************************************************)
(* Properties of Events::from_str and Events::to_string.                   *)
(***************************************************************************)
LastLine == lines[Len(lines)]
LastIndex == Len(lines) - 1

\* a non-blank, non-comment line with indentation: a command line
IsCommandLine(line) == ~IsBlank(line) /\ ~tag(SLASHES, line) /\ IndentOf(line) > 0

\* a non-blank, non-comment line without indentation
IsTopLevelLine(line) == ~IsBlank(line) /\ ~tag(SLASHES, line) /\ IndentOf(line) = 0

NormalEventErrors == {"MissingStartTime", "ParseStartTime", "EventParamsParseError"}

\* C1: round-trip law.  The text `out` is an output of the serializer;
\* parsing it at the same version succeeds and serializing the result gives
\* back exactly `out`.
C1_RoundTripLaw ==
    status = "serialized" =>
        LET r == Events_from_str(out, version) IN
        r.ok /\ Events_to_string(r.events) = out

\* a serialized text with a coordinate suffix and an indented command line,
\* reached from an input that was not in the serializer's spelling
C1_Witness ==
    /\ status = "serialized"
    /\ lines # str_lines(out)
    /\ \E i \in 1..Len(events) :
          events[i].tag = "NormalEvent" /\ events[i].event_params.kind = "Background"
          /\ events[i].event_params.position # <<>>
    /\ \E i \in 1..Len(events) :
          events[i].tag = "Storyboard" /\ events[i].object.commands # <<>>

\* C2: idempotent round trip.  For the serializer's text `out`, parsing the
\* serialization of parse(out) yields a value equal to parse(out).
C2_IdempotentRoundTrip ==
    status = "serialized" =>
        LET e1 == Events_from_str(out, version)
            e2 == Events_from_str(Events_to_string(e1.events), version)
        IN e1.ok /\ e2.ok /\ e2.events = e1.events

\* a serialized text of an object whose Loop holds a nested command
C2_Witness ==
    /\ status = "serialized"
    /\ \E i \in 1..Len(events) :
          /\ events[i].tag = "Storyboard"
          /\ events[i].object.commands # <<>>
          /\ events[i].object.commands[1].commands # <<>>

\* the output so far holds a Storyboard Object, at any place
ContainsObject(evs) == \E i \in 1..Len(evs) : evs[i].tag = "Storyboard"

\* C3 (as claimed): a command line is refused with StoryboardCmdWithNoSprite
\* only when the output holds no Storyboard Object at all; with an Object
\* anywhere before it, comments or normal events in between, it is attached.
C3_NearestObjectOwnsCommand ==
    (lines # <<>> /\ IsCommandLine(LastLine) /\ status = "err"
     /\ err.variant = "StoryboardCmdWithNoSprite")
        => ~ContainsObject(events)

\* C4: a command line reached while the output holds no Storyboard Object
\* fails with StoryboardCmdWithNoSprite at that line's index, whatever the
\* command text is (it is not parsed first).
C4_CmdWithNoSprite ==
    (lines # <<>> /\ IsCommandLine(LastLine) /\ ~ContainsObject(events))
        => /\ status = "err"
           /\ err = Error_new("StoryboardCmdWithNoSprite", "", LastIndex).err

\* a malformed command line, not the first line, refused for its missing owner
C4_Witness ==
    /\ status = "err"
    /\ LastIndex > 0
    /\ IsCommandLine(LastLine)
    /\ ~ContainsObject(events)
    /\ ~Command_from_str(LastLine).ok
    /\ err.variant = "StoryboardCmdWithNoSprite"

\* C5: probe then fallback.  For a top-level line an Object failure other
\* than UnknownObjectType is that line's error, wrapped with the line index;
\* only after UnknownObjectType does the normal-event grammar decide.
C5_ProbeThenFallback ==
    (lines # <<>> /\ IsTopLevelLine(LastLine)) =>
        LET o == Object_from_str(LastLine) IN
        /\ o.ok => status # "err"
        /\ (~o.ok /\ o.err # "UnknownObjectType") =>
              /\ status = "err"
              /\ err = Error_new("StoryboardObjectParseError", o.err, LastIndex).err
        /\ (~o.ok /\ o.err = "UnknownObjectType") =>
              /\ status = "err" <=> ~normal_event_line(<<>>, LastLine, 0).ok
              /\ status = "err" => err.variant \in NormalEventErrors

\* an Object line with a missing field, failing as an Object
C5_Witness ==
    /\ status = "err"
    /\ IsTopLevelLine(LastLine)
    /\ err.variant = "StoryboardObjectParseError"
    /\ err.inner = "MissingField"

\* C6: a top-level line with an unrecognized leading token that fails the
\* normal-event grammar too returns the normal event's error, never the
\* Object probe's UnknownObjectType, with the physical index of the line.
C6_FallbackErrorSurfaced ==
    (lines # <<>> /\ IsTopLevelLine(LastLine)
     /\ ~Object_from_str(LastLine).ok
     /\ Object_from_str(LastLine).err = "UnknownObjectType"
     /\ status = "err")
        => /\ err.variant \in NormalEventErrors
           /\ err.inner # "UnknownObjectType"
           /\ err.line = LastIndex
           /\ err.variant = "EventParamsParseError"
                 => err.inner = EventParams_from_str(LastLine).err

\* the unknown event type reported for a line that is not the first
C6_Witness ==
    /\ status = "err"
    /\ LastIndex > 0
    /\ err.variant = "EventParamsParseError"
    /\ err.inner = "UnknownEventType"
    /\ err.line = LastIndex

NonBlank(ls) == SelectSeq(ls, LAMBDA l : ~IsBlank(l))

\* C7: a blank line yields no event and no error, and an error carries the
\* 0-based index of its line among all physical lines, blank ones counted.
C7_BlankLines ==
    /\ (lines # <<>> /\ IsBlank(LastLine)) => status # "err"
    /\ status # "err" => events = from_str_loop(<<>>, NonBlank(lines), 1).events
    /\ status = "err" => err.line = Len(lines) - 1

\* an error on a line that follows a blank line
C7_Witness ==
    /\ status = "err"
    /\ \E i \in 1..(Len(lines) - 1) : IsBlank(lines[i])
    /\ err.line = Len(lines) - 1
    /\ err.line # Len(NonBlank(lines)) - 1

\* C8: no partial success.  The parse stops at the first failing line: the
\* error is that line's, every line before it was accepted, no value is
\* returned and no line after it is consumed.
C8_NoPartialSuccess ==
    LET r == from_str_loop(<<>>, lines, 1) IN
    /\ status = "err" =>
          /\ returned = <<>> /\ out = <<>>
          /\ err.line = Len(lines) - 1
          /\ ~r.ok /\ r.err = err
          /\ from_str_loop(<<>>, Take(lines, Len(lines) - 1), 1).ok
    /\ status # "err" => r.ok /\ r.events = events
    /\ returned # <<>> => returned[1] = events

\* a failure on the second line with input left to read
C8_Witness ==
    /\ status = "err"
    /\ err.line = 1
    /\ Len(lines) < MaxLines
    /\ events # <<>>

(***************************************************************************)
(* Properties of the versioned normal events.                              *)
(***************************************************************************)
\* the parser named `parser` was the one applied to the line
ParsedBy(parser) ==
    \/ returned # <<>> /\ returned[1].kind = parser
    \/ status = "err" /\ err.variant = parser
    \/ status \in {"panic", "outside"} /\ err.inner = parser

\* the line `2,<s>,<e>` for Integers s and e
BreakLine(s, e) == BREAK_HEADER \o COMMA \o IntToString(s) \o COMMA \o IntToString(e)

\* the times written on a line `2,<s>,<e>`
BreakTimes(line) ==
    LET s == comma_field_type(Drop(line, 2))
        e == consume_rest_type(Drop(s.rest, 1))
    IN [ok |-> tag(BREAK_HEADER \o COMMA, line) /\ s.ok /\ comma(s.rest) /\ e.ok
               /\ line = BreakLine(s.val, e.val),
        s |-> s.val, e |-> e.val]

\* the offset sum of a written time is an Integer at the version in use
TimeFits(t) == IsOldVersion(version) => t <= I32Max - OLD_VERSION_TIME_OFFSET

\* C9: legacy time offset for Break.  Every line `2,<s>,<e>` whose times
\* leave room for the offset is parsed by Break::from_str; at version 3 or 4
\* it is stored with start_time s + 24 (and end_time e + 24) and serialized
\* at that version as the line itself; at every other version the stored
\* times are s and e.  A line is left without a value only when s + 24 or
\* e + 24 is no Integer.
C9_BreakLegacyOffset ==
    (lines # <<>> /\ BreakTimes(lines[1]).ok /\ ParsedBy("Break")) =>
        LET t == BreakTimes(lines[1]) IN
        /\ (TimeFits(t.s) /\ TimeFits(t.e)) <=> returned # <<>>
        /\ returned = <<>> => status = "outside"
        /\ (returned # <<>> /\ IsOldVersion(version)) =>
              /\ returned[1].start_time = t.s + OLD_VERSION_TIME_OFFSET
              /\ returned[1].end_time = t.e + OLD_VERSION_TIME_OFFSET
        /\ (returned # <<>> /\ ~IsOldVersion(version)) =>
              returned[1].start_time = t.s /\ returned[1].end_time = t.e
        /\ status = "serialized" => out = lines[1]

\* `2,100,163` parsed at version 3, stored as 124 and 187 and printed back
C9_Witness ==
    /\ status = "serialized"
    /\ version = 3
    /\ lines = <<BreakLine(100, 163)>>
    /\ returned[1].kind = "Break"
    /\ returned[1].start_time = 124
    /\ returned[1].end_time = 187
    /\ out = BreakLine(100, 163)

\* the start time written on a line: its second comma-separated field
TextStartTime(line) == ParseInteger(SplitComma(line)[2]).val

\* C10 (as claimed): the legacy offset is uniform over the kinds.  Whatever
\* the kind, a parsed normal event whose written start time leaves room for
\* the offset is stored with that time + 24 at versions 3 and 4 and printed
\* with the stored time - 24, and is stored and printed as written at every
\* other version.
C10_UniformLegacyOffset ==
    (returned # <<>> /\ TextStartTime(lines[1]) <= I32Max - OLD_VERSION_TIME_OFFSET) =>
        LET offset == IF IsOldVersion(version) THEN OLD_VERSION_TIME_OFFSET ELSE 0 IN
        /\ returned[1].start_time = TextStartTime(lines[1]) + offset
        /\ status = "serialized" =>
              SplitComma(out)[2] = IntToString(returned[1].start_time - offset)


(***************************************************************************)
(* Properties of positions, of the version gate and of the command tree.   *)
(***************************************************************************)
\* the number of commas of a text
CountCommas(s) == Cardinality({i \in 1..Len(s) : s[i] = ","})

\* a Background or Video event
IsPositioned(event) ==
    event.tag = "NormalEvent" /\ event.event_params.kind \in {"Background", "Video"}

\* C11 (as claimed): at version 14 the position of a Background or Video is
\* always materialized: no parsed event holds an absent position, and the
\* rendering of each one carries the `,x,y` pair after the file name.
C11_PositionMaterialized ==
    version = 14 =>
        /\ \A i \in 1..Len(events) :
              IsPositioned(events[i]) => events[i].event_params.position # <<>>
        /\ status = "serialized" =>
              \A i \in 1..Len(returned[1]) :
                  IsPositioned(returned[1][i]) => CountCommas(Event_fmt(returned[1][i])) = 4


\* the line `0,<start>,<file>,<x>,<y>` for Integers start, x and y
BackgroundLine(start, file, x, y) ==
    BACKGROUND_HEADER \o COMMA \o IntToString(start) \o COMMA \o file
    \o COMMA \o IntToString(x) \o COMMA \o IntToString(y)

\* the values written on a line `0,<start>,<file>,<x>,<y>`
BackgroundFields(line) ==
    LET f == SplitComma(line) IN
    IF Len(f) # 5 THEN [ok |-> FALSE]
    ELSE LET st == ParseInteger(f[2]) x == ParseInteger(f[4]) y == ParseInteger(f[5]) IN
         [ok |-> st.ok /\ x.ok /\ y.ok /\ line = BackgroundLine(st.val, f[3], x.val, y.val),
          start |-> st.val, file |-> f[3], x |-> x.val, y |-> y.val]

\* C12: at version 14 a line `0,<start>,<file>,<x>,<y>` is accepted, parses
\* to a Background at <start> whose position is exactly (x, y), and is
\* rendered as the identical text, the pair 0,0 included.
C12_ExplicitCoordinatesRoundTrip ==
    (version = 14 /\ lines # <<>> /\ BackgroundFields(LastLine).ok) =>
        LET b == BackgroundFields(LastLine) IN
        /\ status # "err"
        /\ events # <<>>
        /\ events[Len(events)] =
              [tag |-> "NormalEvent", start_time |-> b.start,
               event_params |-> [kind |-> "Background", filename |-> b.file,
                                 position |-> <<b.x, b.y>>]]
        /\ Event_fmt(events[Len(events)]) = LastLine
        /\ status = "serialized" =>
              LET o == str_lines(out) IN o # <<>> /\ o[Len(o)] = LastLine

\* the lines `0,0,a,0,0`, `0,0,bg2.jpg,0,1` and `0,7,b,-3,4` parsed one after
\* the other and rendered at version 14
C12_Witness ==
    /\ version = 14
    /\ status = "serialized"
    /\ lines = <<BackgroundLine(0, <<"a">>, 0, 0),
                 BackgroundLine(0, <<"b", "g", "2", ".", "j", "p", "g">>, 0, 1),
                 BackgroundLine(7, <<"b">>, -3, 4)>>
    /\ events[1].event_params.position = <<0, 0>>
    /\ events[2].event_params.position = <<0, 1>>
    /\ events[3].event_params.position = <<-3, 4>>
    /\ events[3].start_time = 7
    /\ str_lines(out) = lines


\* the line `3,<start>,<r>,<g>,<b>`
ColourLine(start, r, g, b) ==
    COLOUR_TRANSFORMATION_HEADER \o COMMA \o IntToString(start) \o COMMA
    \o IntToString(r) \o COMMA \o IntToString(g) \o COMMA \o IntToString(b)

\* to_string was called on a parsed ColourTransformation
ColourTransformationRendered ==
    returned # <<>> /\ returned[1].kind = "ColourTransformation" /\ status # "parsed"

\* C13: ColourTransformation::to_string is gated on the version.  Below 14
\* it returns the line `3,<start>,<r>,<g>,<b>`, <start> the time the parsed
\* line was written with; from 14 on it returns None and no text.
C13_ColourTransformationGate ==
    ColourTransformationRendered =>
        IF version < 14
        THEN /\ status = "serialized"
             /\ out = ColourLine(TextStartTime(lines[1]), returned[1].red,
                                 returned[1].green, returned[1].blue)
        ELSE status = "none" /\ out = <<>>

\* a ColourTransformation parsed at version 14 and refused by to_string
C13_Witness ==
    /\ ColourTransformationRendered
    /\ version = 14
    /\ status = "none"
    /\ returned[1].red = 255


\* a ColourTransformation event
IsColourTransformation(event) ==
    event.tag = "NormalEvent" /\ event.event_params.kind = "ColourTransformation"

\* C14 (as claimed): at version 14 or above Events::to_string has no text
\* for a value that holds a ColourTransformation: whenever it returned a
\* text, the value held none, so no `3,...` line is ever written.
C14_NoTextForColourTransformation ==
    (version >= 14 /\ status = "serialized") =>
        /\ \A i \in 1..Len(returned[1]) : ~IsColourTransformation(returned[1][i])
        /\ \A i \in 1..Len(str_lines(out)) :
              ~tag(COLOUR_TRANSFORMATION_HEADER \o COMMA, str_lines(out)[i])


\* the commands of a tree in pre-order, each with its nesting depth and
\* without its children
RECURSIVE Flatten(_, _)
Flatten(commands, depth) ==
    IF commands = <<>> THEN <<>>
    ELSE <<[depth |-> depth, cmd |-> [commands[1] EXCEPT !.commands = <<>>]]>>
         \o Flatten(commands[1].commands, depth + 1)
         \o Flatten(Tail(commands), depth)

\* the deepest indentation the tree accepts: one more than the number of
\* Loop/Trigger commands on the chain of last children
RECURSIVE OpenDepth(_)
OpenDepth(commands) ==
    IF commands = <<>> \/ commands[Len(commands)].type \notin {"L", "T"} THEN 1
    ELSE 1 + OpenDepth(commands[Len(commands)].commands)

\* the lines the loop accepted: all of them, or all but the failing one
AcceptedLines == IF status = "err" THEN Take(lines, Len(lines) - 1) ELSE lines

\* the command lines that follow each Object line, as (indentation, command)
RECURSIVE CommandGroups(_, _, _)
CommandGroups(ls, i, groups) ==
    IF i > Len(ls) THEN groups
    ELSE IF IsCommandLine(ls[i]) /\ groups # <<>>
    THEN CommandGroups(ls, i + 1,
             [groups EXCEPT ![Len(groups)] =
                 Append(@, [depth |-> IndentOf(ls[i]), cmd |-> Command_from_str(ls[i]).val])])
    ELSE IF IsTopLevelLine(ls[i]) /\ Object_from_str(ls[i]).ok
    THEN CommandGroups(ls, i + 1, Append(groups, <<>>))
    ELSE CommandGroups(ls, i + 1, groups)

\* the Objects of the output, in order
Objects(evs) == SelectSeq(evs, LAMBDA e : e.tag = "Storyboard")

\* the depths go down freely and up by one, below a Loop/Trigger only
NoDepthSkipped(flat) ==
    /\ flat # <<>> => flat[1].depth = 1
    /\ \A i \in 2..Len(flat) :
          /\ flat[i].depth <= flat[i - 1].depth + 1
          /\ flat[i].depth = flat[i - 1].depth + 1 => flat[i - 1].cmd.type \in {"L", "T"}

\* C15: the depth rule of the tree builder.  A well-formed command line at
\* depth d under an Object is accepted exactly when the chain of last
\* children reaches depth d (always at depth 1, below a Loop/Trigger at depth
\* d - 1 otherwise) and then becomes the last command of the tree at depth d;
\* after any accepted sequence each Object's tree, in pre-order, is its
\* command lines with their indentations, and no depth is skipped.
C15_DepthRule ==
    /\ (lines # <<>> /\ IsCommandLine(LastLine) /\ Command_from_str(LastLine).ok) =>
          LET prev == from_str_loop(<<>>, Take(lines, Len(lines) - 1), 1).events IN
          (prev # <<>> /\ prev[Len(prev)].tag = "Storyboard") =>
              LET before == prev[Len(prev)].object.commands
                  d == IndentOf(LastLine)
              IN /\ status # "err" <=> d <= OpenDepth(before)
                 /\ status # "err" =>
                       Flatten(events[Len(events)].object.commands, 1) =
                           Append(Flatten(before, 1),
                                  [depth |-> d, cmd |-> Command_from_str(LastLine).val])
    /\ LET objects == Objects(events)
           groups == CommandGroups(AcceptedLines, 1, <<>>)
       IN /\ Len(objects) = Len(groups)
          /\ \A k \in 1..Len(objects) :
                /\ Flatten(objects[k].object.commands, 1) = groups[k]
                /\ NoDepthSkipped(groups[k])

\* command lines at the depths 1, 1, 2, 3, 2: the line at depth 2 goes below
\* the second Loop, the last of the two, the line at depth 3 below the
\* Trigger it opens, and the last line, back at depth 2, becomes the second
\* child of the second Loop
C15_Witness ==
    /\ status = "parsing"
    /\ Len(lines) = 6
    /\ [i \in 1..5 |-> IndentOf(lines[i + 1])] = <<1, 1, 2, 3, 2>>
    /\ Len(events) = 1
    /\ Len(events[1].object.commands) = 2
    /\ events[1].object.commands[1].type = "L"
    /\ events[1].object.commands[1].commands = <<>>
    /\ events[1].object.commands[2].type = "L"
    /\ Len(events[1].object.commands[2].commands) = 2
    /\ events[1].object.commands[2].commands[1].type = "T"
    /\ Len(events[1].object.commands[2].commands[1].commands) = 1
    /\ events[1].object.commands[2].commands[1].commands[1].type = "F"
    /\ events[1].object.commands[2].commands[2].type = "F"
    /\ events[1].object.commands[2].commands[2].commands = <<>>


\* the last line is a well-formed command at depth 2 and the accepted line
\* right before it a command at depth 1 that is not a Loop/Trigger
DepthTwoAfterLeaf ==
    /\ Len(lines) >= 2
    /\ IsCommandLine(LastLine) /\ IndentOf(LastLine) = 2
    /\ Command_from_str(LastLine).ok
    /\ IsCommandLine(lines[Len(lines) - 1]) /\ IndentOf(lines[Len(lines) - 1]) = 1
    /\ from_str_loop(<<>>, Take(lines, Len(lines) - 1), 1).ok
    /\ Command_from_str(lines[Len(lines) - 1]).val.type \notin {"L", "T"}

\* C16: a command line indented 2 right after a depth-1 command that is not
\* a Loop/Trigger fails with InvalidIndentation(expected, 2), expected at
\* most 1, wrapped with the index of that line, and the output is left as it
\* was before the line.
C16_InvalidIndentation ==
    DepthTwoAfterLeaf =>
        /\ status = "err"
        /\ err.variant = "CommandPushError"
        /\ err.inner = "InvalidIndentation"
        /\ err.expected <= 1
        /\ err.actual = 2
        /\ err.line = LastIndex
        /\ events = from_str_loop(<<>>, Take(lines, Len(lines) - 1), 1).events
        /\ returned = <<>>

\* the third line refused below a Fade
C16_Witness ==
    /\ DepthTwoAfterLeaf
    /\ status = "err"
    /\ err.line = 2
    /\ err.expected = 1
    /\ err.actual = 2
    /\ Len(events[Len(events)].object.commands) = 1
    /\ events[Len(events)].object.commands[1].commands = <<>>


\* the k-th command of a flattened tree is a Loop/Trigger without children
IsEmptyContainer(flat, k) ==
    /\ flat[k].cmd.type \in {"L", "T"}
    /\ k < Len(flat) => flat[k + 1].depth <= flat[k].depth

\* C17: in the rendering of an Object a Loop/Trigger with no children takes
\* exactly one line, its own, at its depth; the rendering has one line per
\* command and no other, and the command that follows the empty container is
\* written at that command's own depth, which is the container's or less.
C17_EmptyContainerOneLine ==
    status = "serialized" =>
        \A i \in 1..Len(returned[1]) :
            returned[1][i].tag = "Storyboard" =>
                LET flat == Flatten(returned[1][i].object.commands, 1)
                    text == str_lines(Event_fmt(returned[1][i]))
                IN /\ Len(text) = 1 + Len(flat)
                   /\ \A k \in 1..Len(flat) :
                         IsEmptyContainer(flat, k) =>
                             /\ text[k + 1] = Repeat(" ", flat[k].depth) \o Command_fmt(flat[k].cmd)
                             /\ k < Len(flat) =>
                                   /\ IndentOf(text[k + 2]) = flat[k + 1].depth
                                   /\ IndentOf(text[k + 2]) <= flat[k].depth

\* a rendered Object whose first command is an empty Loop with a sibling
\* after it
C17_Witness ==
    /\ status = "serialized"
    /\ events # <<>>
    /\ events[1].tag = "Storyboard"
    /\ Len(events[1].object.commands) = 2
    /\ events[1].object.commands[1].type = "L"
    /\ events[1].object.commands[1].commands = <<>>
    /\ str_lines(out)[2] = <<" ", "L", ",", "0", ",", "2">>
    /\ IndentOf(str_lines(out)[3]) = 1


\* a line that stands for an Event: not blank, and a comment or not indented
IsEventLine(line) == ~IsBlank(line) /\ (tag(SLASHES, line) \/ IndentOf(line) = 0)

\* an Event without the commands attached to it
Header(event) ==
    IF event.tag = "Storyboard" THEN [event EXCEPT !.object.commands = <<>>] ELSE event

\* the Event a line stands for when it is read on its own
EventOfLine(line) == from_str_line(<<>>, line, 0).events[1]

\* every Event of the output is the one of its line, in line order
EventsFollowLines ==
    status # "err" =>
        LET event_lines == SelectSeq(lines, IsEventLine) IN
        /\ Len(events) = Len(event_lines)
        /\ \A k \in 1..Len(events) : Header(events[k]) = Header(EventOfLine(event_lines[k]))

\* a step keeps every Event at its place: only the last one may change, by
\* the commands attached to it, and a new one is appended at the end only
EventsOnlyAppended ==
    /\ Len(events') >= Len(events)
    /\ Len(events') <= Len(events) + 1
    /\ \A i \in 1..Len(events) :
          /\ Header(events'[i]) = Header(events[i])
          /\ i < Len(events) => events'[i] = events[i]
    /\ (lines' # lines /\ IsCommandLine(lines'[Len(lines')])) => Len(events') = Len(events)

\* C18: on success the output holds exactly one Event for each non-blank
\* line that is a comment or has no indentation, in the order of the lines;
\* command lines add no Event, and no step removes or moves an Event.
C18_OneEventPerLineInOrder == []EventsFollowLines /\ [][EventsOnlyAppended]_vars

\* an Object, a command attached to it and a comment: three lines, two Events
C18_Witness ==
    /\ status = "ok"
    /\ Len(lines) = 3
    /\ Len(events) = 2
    /\ events[1].tag = "Storyboard"
    /\ events[1].object.commands # <<>>
    /\ events[2].tag = "Comment"


\* C19: a line that starts with `//` at column 0 is accepted as
\* Comment(rest), rest the whole remainder of the line unchanged, and that
\* Comment is rendered as `//` followed by rest: the line itself.
C19_CommentRoundTrip ==
    (lines # <<>> /\ tag(SLASHES, LastLine)) =>
        /\ status # "err"
        /\ events # <<>>
        /\ events[Len(events)].tag = "Comment"
        /\ SLASHES \o events[Len(events)].text = LastLine
        /\ Event_fmt(events[Len(events)]) = LastLine
        /\ status = "serialized" =>
              LET o == str_lines(out) IN o # <<>> /\ o[Len(o)] = LastLine

\* a comment with blanks and a comma in its text, rendered after another line
C19_Witness ==
    /\ status = "serialized"
    /\ Len(lines) > 1
    /\ LastLine = <<"/", "/", " ", ",", "_", " ">>
    /\ events[Len(events)].text = <<" ", ",", "_", " ">>
    /\ str_lines(out)[Len(str_lines(out))] = LastLine


\* the header tokens of the normal events
EventHeaders ==
    {BACKGROUND_HEADER, VIDEO_HEADER, VIDEO_HEADER_LONG, BREAK_HEADER, BREAK_HEADER_LONG,
     COLOUR_TRANSFORMATION_HEADER}

\* the last line went to the normal-event grammar: unindented, not a comment
\* and refused by the Object probe for its type
IsNormalEventLine ==
    /\ lines # <<>>
    /\ IsTopLevelLine(LastLine)
    /\ ~Object_from_str(LastLine).ok
    /\ Object_from_str(LastLine).err = "UnknownObjectType"

UnknownEventTypeReturned ==
    status = "err" /\ err.variant = "EventParamsParseError" /\ err.inner = "UnknownEventType"

\* an error of a missing or invalid field
FieldErrorReturned == status = "err" /\ ~UnknownEventTypeReturned

\* C20 (as claimed): a normal-event line returns the unknown-event-type
\* error exactly when the text before its first comma is none of `0`, `1`,
\* `Video`, `2`, `Break`, `3`; with a recognized header it never returns
\* that error, and with an unrecognized one it never returns a field error.
C20_UnknownTypeVersusBadPayload ==
    IsNormalEventLine =>
        LET recognized == comma_field(LastLine).out \in EventHeaders IN
        /\ UnknownEventTypeReturned <=> ~recognized
        /\ ~recognized => ~FieldErrorReturned


(***************************************************************************)
(* Properties of the field errors and of the header spelling.              *)
(***************************************************************************)
\* the fields of a Break and of a ColourTransformation after the header,
\* each with its errors and whether its codec is the Integer's or the u8's
BreakFieldSpecs ==
    <<[missing |-> "MissingStartTime", invalid |-> "InvalidStartTime", u8 |-> FALSE],
      [missing |-> "MissingEndTime", invalid |-> "InvalidEndTime", u8 |-> FALSE]>>

ColourTransformationFieldSpecs ==
    <<[missing |-> "MissingStartTime", invalid |-> "InvalidStartTime", u8 |-> FALSE],
      [missing |-> "MissingRed", invalid |-> "InvalidRed", u8 |-> TRUE],
      [missing |-> "MissingGreen", invalid |-> "InvalidGreen", u8 |-> TRUE],
      [missing |-> "MissingBlue", invalid |-> "InvalidBlue", u8 |-> TRUE]>>

\* the error of the first offending field, from left to right, of the text
\* after the header: Missing when the text does not go on with a comma,
\* Invalid when the field's text (for the last field, all that is left) fails
\* the codec; "" when no field offends
RECURSIVE FirstFieldError(_, _, _)
FirstFieldError(rest, field_specs, i) ==
    IF i > Len(field_specs) THEN ""
    ELSE IF rest = <<>> \/ rest[1] # "," THEN field_specs[i].missing
    ELSE LET text == IF i = Len(field_specs) THEN Tail(rest)
                     ELSE Take(Tail(rest), FirstComma(Tail(rest)) - 1)
             value == IF field_specs[i].u8 THEN ParseU8(text) ELSE ParseInteger(text)
         IN IF ~value.ok THEN field_specs[i].invalid
            ELSE FirstFieldError(Drop(rest, 1 + Len(text)), field_specs, i + 1)

\* the text of a line after its header, "2"/"Break" or "3"
AfterHeader(line, parser) ==
    IF parser = "Break"
    THEN Drop(line, IF tag(BREAK_HEADER, line) THEN Len(BREAK_HEADER) ELSE Len(BREAK_HEADER_LONG))
    ELSE Drop(line, Len(COLOUR_TRANSFORMATION_HEADER))

\* the outcome of the parser on lines[1] is the first offending field's error
FieldErrorIsLeftmost(parser, field_specs) ==
    LET expected == FirstFieldError(AfterHeader(lines[1], parser), field_specs, 1) IN
    /\ status = "err" => err.inner = expected /\ expected # ""
    /\ status = "parsed" => expected = ""
    /\ status = "outside" => expected \notin {field_specs[1].missing, field_specs[1].invalid}

\* C21: the Missing and the Invalid error of each field of a normal event.
\* For a Break line and for a ColourTransformation line with its header in
\* place, from_str returns the error of the first offending field from left
\* to right: the field's Missing error when the line does not go on with
\* the comma before it, its Invalid error when its text fails the codec; it
\* returns a value only when no field offends.
C21_MissingVersusInvalid ==
    /\ (lines # <<>> /\ ParsedBy("Break")
        /\ (tag(BREAK_HEADER, lines[1]) \/ tag(BREAK_HEADER_LONG, lines[1])))
          => FieldErrorIsLeftmost("Break", BreakFieldSpecs)
    /\ (lines # <<>> /\ ParsedBy("ColourTransformation")
        /\ tag(COLOUR_TRANSFORMATION_HEADER, lines[1]))
          => FieldErrorIsLeftmost("ColourTransformation", ColourTransformationFieldSpecs)

\* `2,x`: the start time is invalid and the end time missing; the start
\* time's error is the one returned
C21_Witness ==
    /\ status = "err"
    /\ err.variant = "Break"
    /\ lines[1] = <<"2", ",", "x">>
    /\ err.inner = "InvalidStartTime"


\* a field of a command line: its errors, its codec and whether an empty
\* text is a value
FieldSpec(missing, invalid, codec) ==
    [missing |-> missing, invalid |-> invalid, codec |-> codec, optional |-> FALSE]

\* the fields after the type token that every command but a Loop and a
\* Trigger begins with
KeyframeFieldSpecs ==
    <<FieldSpec("MissingEasing", "InvalidEasing", "Count"),
      FieldSpec("MissingStartTime", "InvalidStartTime", "Integer"),
      [FieldSpec("MissingEndTime", "InvalidEndTime", "Integer") EXCEPT !.optional = TRUE]>>

LoopFieldSpecs ==
    <<FieldSpec("MissingStartTime", "InvalidStartTime", "Integer"),
      FieldSpec("MissingLoopCount", "InvalidLoopCount", "Count")>>

\* the fields of a Trigger whose type token is followed by n fields: the
\* group number is one of them when n is 4 or more
TriggerFieldSpecs(n) ==
    <<FieldSpec("MissingTriggerType", "InvalidTriggerType", "TriggerType")>>
    \o (IF n >= 4 THEN <<FieldSpec("InvalidGroupNumber", "InvalidGroupNumber", "Integer")>>
        ELSE <<>>)
    \o <<FieldSpec("MissingStartTime", "InvalidStartTime", "Integer"),
         FieldSpec("MissingEndTime", "InvalidEndTime", "Integer")>>

\* the value components of the first keyframe of each kind, in their order
ValueFieldSpecs(token) ==
    CASE token = <<"F">> ->
           <<FieldSpec("MissingStartOpacity", "InvalidStartOpacity", "Decimal")>>
      [] token = <<"M">> ->
           <<FieldSpec("MissingMoveX", "InvalidMoveX", "Decimal"),
             FieldSpec("MissingMoveY", "InvalidMoveY", "Decimal")>>
      [] token = <<"M", "X">> -> <<FieldSpec("MissingMoveX", "InvalidMoveX", "Decimal")>>
      [] token = <<"M", "Y">> -> <<FieldSpec("MissingMoveY", "InvalidMoveY", "Decimal")>>
      [] token = <<"S">> ->
           <<FieldSpec("MissingStartScale", "InvalidStartScale", "Decimal")>>
      [] token = <<"V">> ->
           <<FieldSpec("MissingScaleX", "InvalidScaleX", "Decimal"),
             FieldSpec("MissingScaleY", "InvalidScaleY", "Decimal")>>
      [] token = <<"R">> ->
           <<FieldSpec("MissingStartRotation", "InvalidStartRotation", "Decimal")>>
      [] token = <<"C">> ->
           <<FieldSpec("MissingRed", "InvalidRed", "u8"),
             FieldSpec("MissingGreen", "InvalidGreen", "u8"),
             FieldSpec("MissingBlue", "InvalidBlue", "u8")>>
      [] token = <<"P">> ->
           <<FieldSpec("MissingParameterType", "InvalidParameterType", "Parameter")>>

\* the error of a value after the complete first keyframe, by kind
InvalidContinuing(token) ==
    CASE token = <<"F">> -> "InvalidContinuingOpacities"
      [] token \in {<<"M">>, <<"M", "X">>, <<"M", "Y">>} -> "InvalidContinuingMove"
      [] token = <<"S">> -> "InvalidContinuingScale"
      [] token = <<"V">> -> "InvalidContinuingScales"
      [] token = <<"R">> -> "InvalidContinuingRotation"
      [] token = <<"C">> -> "InvalidContinuingColours"
      [] token = <<"P">> -> "InvalidContinuingParameters"

\* the error of the leftmost offending field among f[2..]: Missing when the
\* line ends before the field, Invalid when its codec refuses its text,
\* `continuing` when a field after the last one of field_specs is refused by
\* the codec of the last one; "" when no field offends
RECURSIVE LeftmostCommandError(_, _, _, _)
LeftmostCommandError(f, field_specs, continuing, i) ==
    IF i > Len(f) - 1
    THEN IF i <= Len(field_specs) THEN field_specs[i].missing ELSE ""
    ELSE IF i > Len(field_specs)
    THEN IF ParseCommandField(field_specs[Len(field_specs)].codec, f[i + 1]).ok
         THEN LeftmostCommandError(f, field_specs, continuing, i + 1)
         ELSE continuing
    ELSE IF ~ParseCommandField(field_specs[i].codec, f[i + 1]).ok
            /\ ~(field_specs[i].optional /\ f[i + 1] = <<>>)
    THEN field_specs[i].invalid
    ELSE LeftmostCommandError(f, field_specs, continuing, i + 1)

PropertyTokens ==
    {<<"F">>, <<"M">>, <<"M", "X">>, <<"M", "Y">>, <<"S">>, <<"V">>, <<"R">>, <<"C">>,
     <<"P">>}

\* the error the claim expects for the line of fields f, "" for none
ExpectedCommandError(f) ==
    IF f[1] \in PropertyTokens
    THEN LeftmostCommandError(f, KeyframeFieldSpecs \o ValueFieldSpecs(f[1]),
                              InvalidContinuing(f[1]), 1)
    ELSE IF f[1] = <<"L">> THEN LeftmostCommandError(f, LoopFieldSpecs, "", 1)
    ELSE IF f[1] = <<"T">>
    THEN LeftmostCommandError(f, TriggerFieldSpecs(Len(f) - 1), "", 1)
    ELSE "UnknownCommandType"

\* C22: Command::from_str reports the error of the leftmost offending field
\* in the order type, easing, start_time, end_time, value components:
\* UnknownCommandType for an unrecognized type token, the field's Missing
\* error when the line ends before it, its Invalid error when its text does
\* not parse, the kind's InvalidContinuing error when a value after the
\* complete first keyframe does not parse; a command is returned only when
\* no field offends, and every line of storyboard_cmd_errors and of
\* continuing_error gets the error its test expects.
C22_LeftmostCommandError ==
    (lines # <<>> /\ status \in {"parsed", "err"}) =>
        /\ status = "err" <=> ExpectedCommandError(SplitComma(lines[1])) # ""
        /\ status = "err" =>
              /\ err.variant = "CommandParseError"
              /\ err.inner = ExpectedCommandError(SplitComma(lines[1]))
        /\ \A c \in CommandErrorCases :
              lines[1] = c[1] => status = "err" /\ err.inner = c[2]

\* a Move whose move_y is invalid and whose continuing value is invalid too:
\* the error of move_y is the one returned
C22_Witness ==
    /\ status = "err"
    /\ lines = <<<<"M", ",", "0", ",", "0", ",", "0", ",", "0", ",", "f", "o", "o",
                   ",", "f", "o", "o">>>>
    /\ err.variant = "CommandParseError"
    /\ err.inner = "InvalidMoveY"

(***************************************************************************)
(* Properties of Volume.                                                   *)
(***************************************************************************)
VolumeHeld == returned[1]

VolumeHeldInRange == VolumeHeld = <<>> \/ VolumeHeld[1] \in 1..100

\* the last call was new(Some(v)) or set_volume(v)
LastVolumeCall(v) == status \in {"new", "set_volume"} /\ lines = <<IntToString(v)>>

VolumeRejections ==
    \A v \in 0..U8Max :
        LastVolumeCall(v) =>
            /\ v = 0 => err.inner = "VolumeTooLow"
            /\ v > 100 => err.inner = "VolumeTooHigh"
            /\ v \in 1..100 => err = NoError /\ VolumeHeld = <<v>>

RejectedSetVolumeKeepsValue ==
    status' = "set_volume" /\ err' # NoError => returned' = returned

\* C23: after any sequence of new, from_str, set_volume and
\* set_use_timing_point_volume calls the Volume holds no value or a value in
\* 1..=100; new and set_volume reject 0 with VolumeTooLow and a value above
\* 100 with VolumeTooHigh, and a rejected set_volume leaves the held value
\* as it was.
C23_VolumeRange ==
    /\ [](VolumeHeldInRange /\ VolumeRejections)
    /\ [][RejectedSetVolumeKeepsValue]_vars

\* set_volume(101) was rejected on a Volume that holds 100
C23_Witness ==
    /\ status = "set_volume"
    /\ lines = <<IntToString(101)>>
    /\ err.inner = "VolumeTooHigh"
    /\ VolumeHeld = <<100>>

(***************************************************************************)
(* Properties of the command-tree serializer.                              *)
(***************************************************************************)
\* the straightforward recursive rendering: the line of a command, then its
\* descendants one deeper, then its next sibling
RECURSIVE RecursiveRendering(_, _)
RecursiveRendering(commands, depth) ==
    IF commands = <<>> THEN <<>>
    ELSE <<Repeat(" ", depth) \o Command_fmt(commands[1])>>
         \o RecursiveRendering(commands[1].commands, depth + 1)
         \o RecursiveRendering(Tail(commands), depth)

RECURSIVE CountCommands(_)
CountCommands(commands) ==
    IF commands = <<>> THEN 0
    ELSE 1 + CountCommands(commands[1].commands) + CountCommands(Tail(commands))

WalkedCommands == events[1].object.commands

\* the lines written so far are the first lines of the recursive rendering
WrittenIsPrefix ==
    /\ Len(lines) <= CountCommands(WalkedCommands)
    /\ lines = Take(RecursiveRendering(WalkedCommands, 1), Len(lines))

WrittenIsComplete ==
    /\ Len(lines) = CountCommands(WalkedCommands)
    /\ \A a, b \in 1..Len(lines) : a # b => lines[a] # lines[b]
    /\ out = Object_header(events[1].object)
             \o (IF WalkedCommands = <<>> THEN <<>>
                 ELSE NEWLINE \o JoinWith(RecursiveRendering(WalkedCommands, 1), NEWLINE))
    /\ out = Event_fmt(events[1])

\* C24: the serializer writes every command of an Object exactly once, in
\* pre-order, each line prefixed by as many spaces as the command's nesting
\* depth (1 for a top-level command): its output is that of the recursive
\* rendering, for every command forest.
C24_SerializerIsPreOrder ==
    /\ WrittenIsPrefix
    /\ status = "done" => WrittenIsComplete

\* a Loop at depth 2 with a child, followed by a sibling, was serialized
C24_Witness ==
    /\ status = "done"
    /\ WalkedCommands # <<>>
    /\ Len(WalkedCommands[1].commands) = 2
    /\ WalkedCommands[1].commands[1].commands # <<>>

\* the nesting depth of a command forest, 0 for the empty one
RECURSIVE NestingDepth(_)
NestingDepth(commands) ==
    IF commands = <<>> THEN 0
    ELSE IF 1 + NestingDepth(commands[1].commands) >= NestingDepth(Tail(commands))
         THEN 1 + NestingDepth(commands[1].commands)
         ELSE NestingDepth(Tail(commands))

WalkLocals == returned[1]

\* the index the next iteration reads is inside current_cmds
IndexInsideList == WalkLocals.current_index < Len(WalkLocals.current_cmds)

\* every frame on the stack has a sibling left to visit
FramesHaveSiblings ==
    \A k \in 1..Len(WalkLocals.cmds_stack) :
        WalkLocals.cmds_stack[k][2] < Len(WalkLocals.cmds_stack[k][1])

StackWithinDepth == Len(WalkLocals.cmds_stack) <= NestingDepth(WalkedCommands)

WalkIsSafe ==
    /\ status # "panic"
    /\ status = "loop" => IndexInsideList /\ FramesHaveSiblings /\ StackWithinDepth

\* C29: the explicit-stack walk terminates for every command tree, never
\* reads a command list at an index past its end, only pushes frames that
\* still have remaining siblings, and never holds more stack frames than the
\* nesting depth of the tree.
C29_WalkTerminatesWithinBounds == <>(status = "done") /\ []WalkIsSafe

\* a frame is on the stack while the children of a Loop are walked
C29_Witness ==
    /\ status = "loop"
    /\ WalkLocals.cmds_stack # <<>>
    /\ WalkLocals.indentation = 3

(***************************************************************************)
(* Properties of TimingPoint::from_str.                                    *)
(***************************************************************************)
\* the error variant of each of the 8 fields, in the order of the line
TimingPointFieldErrors ==
    <<"InvalidTime", "InvalidBeatLength", "InvalidMeter", "InvalidSampleSet",
      "InvalidSampleIndex", "InvalidVolume", "InvalidUninherited", "InvalidEffects">>

\* field k of the line is the text that no codec accepts
FieldRejected(k) == SplitComma(lines[1])[k] = <<"x">>

\* C25 (as claimed): on a line with exactly 8 comma-separated fields a
\* failure of a field is reported with that field's own variant -
\* InvalidTime, InvalidBeatLength, InvalidMeter, InvalidSampleSet,
\* InvalidSampleIndex, InvalidVolume, InvalidUninherited and, for the eighth
\* field, InvalidEffects - and never under another field's variant.
C25_FieldOwnVariant ==
    (status = "err" /\ err.variant = "TimingPoint" /\ Len(SplitComma(lines[1])) = 8) =>
        \E k \in 1..8 :
            /\ FieldRejected(k)
            /\ \A j \in 1..(k - 1) : ~FieldRejected(j)
            /\ err.inner = TimingPointFieldErrors[k]

(***************************************************************************)
(* Properties of the hit object type number.                                *)
(***************************************************************************)
\* the object type of each type flag
TypeFlags ==
    {<<0, "HitCircle">>, <<1, "Slider">>, <<3, "Spinner">>, <<7, "OsuManiaHold">>}

FlagsSet(n) == {f \in TypeFlags : (n \div (2 ^ f[1])) % 2 = 1}

\* the text parsed is the decimal text of the u8 n, and set was not called
\* on the object parsed from it
TypeNumberParsed(n) ==
    status \in {"parsed", "serialized", "err"} /\ lines = <<IntToString(n)>>

\* C26 (as claimed): for every u8 type number with exactly one object-type
\* flag set, from_str returns the object type of that flag (bit 0 HitCircle,
\* bit 1 Slider, bit 3 Spinner, bit 7 OsuManiaHold), new_combo equal to bit 2
\* and combo_skip_count equal to bits 4-6, the inverse of type_to_string; a
\* type number with no or several type flags is rejected with InvalidObjType.
C26_TypeNumberDecoded ==
    \A n \in 0..U8Max :
        TypeNumberParsed(n) =>
            IF Cardinality(FlagsSet(n)) = 1
            THEN /\ status \in {"parsed", "serialized"}
                 /\ \E f \in FlagsSet(n) : returned[1].obj_type = f[2]
                 /\ returned[1].new_combo = ((n \div 4) % 2 = 1)
                 /\ returned[1].combo_skip_count = (n \div 16) % 8
                 /\ status = "serialized" => out = lines[1]
            ELSE status = "err" /\ err.inner = "InvalidObjType"

(***************************************************************************)
(* Frame of one step of Events::from_str.                                  *)
(***************************************************************************)
\* the step processes one more line and does not return an error
LineAccepted == lines' # lines /\ status' = "parsing"

ProcessedLine == lines'[Len(lines')]

\* only the command list of the last Event changes, by one command
OnlyLastCommandListChanges ==
    /\ events # <<>>
    /\ Len(events') = Len(events)
    /\ \A i \in 1..(Len(events) - 1) : events'[i] = events[i]
    /\ events[Len(events)].tag = "Storyboard"
    /\ events'[Len(events)] =
           [events[Len(events)] EXCEPT
               !.object.commands = events'[Len(events)].object.commands]
    /\ CountCommands(events'[Len(events)].object.commands)
           = CountCommands(events[Len(events)].object.commands) + 1

\* one Event is appended and the Events before it are as they were
OneEventAppended ==
    /\ Len(events') = Len(events) + 1
    /\ SubSeq(events', 1, Len(events)) = events

ParseStepFrame ==
    LineAccepted =>
        /\ IsCommandLine(ProcessedLine) => OnlyLastCommandListChanges
        /\ IsEventLine(ProcessedLine) => OneEventAppended

\* C28: processing an accepted command line changes only the command list of
\* the last Event (the owning object) and leaves the number of events and
\* every earlier event unchanged; processing a comment, normal-event or
\* object line only appends one Event and alters no existing Event.
C28_ParseStepFrame == [][ParseStepFrame]_vars

\* a command was attached to the second of two Events
C28_Witness ==
    /\ status = "parsing"
    /\ Len(lines) = 3
    /\ IsCommandLine(LastLine)
    /\ Len(events) = 2
    /\ events[2].tag = "Storyboard"
    /\ events[2].object.commands # <<>>

(***************************************************************************)
(* Properties of the header spelling of Video and Break.                   *)
(***************************************************************************)
\* the Video or Break that was written, of either module
WrittenValue == IF events # <<>> THEN events[1].event_params ELSE returned[1]

VideoOrBreakWritten ==
    /\ status = "serialized"
    /\ IF events # <<>> THEN events[1].tag = "NormalEvent" ELSE returned # <<>>
    /\ WrittenValue.kind \in {"Video", "Break"}

\* the text before the first comma
HeaderToken(text) == comma_field(text).out

ShortHeaderOf(kind) == IF kind = "Video" THEN <<"1">> ELSE <<"2">>
LongHeaderOf(kind) ==
    IF kind = "Video" THEN <<"V", "i", "d", "e", "o">> ELSE <<"B", "r", "e", "a", "k">>

\* C30: a Video or Break parsed from the long header (`Video` / `Break`) is
\* written with the long header, one parsed from the short header (`1` / `2`)
\* with the short header, and a value built with Video::new or Break::new is
\* written with the short header.
C30_HeaderSpellingPreserved ==
    VideoOrBreakWritten =>
        IF lines = <<>>
        THEN HeaderToken(out) = ShortHeaderOf(WrittenValue.kind)
        ELSE /\ HeaderToken(lines[1]) \in {ShortHeaderOf(WrittenValue.kind),
                                           LongHeaderOf(WrittenValue.kind)}
             /\ HeaderToken(out) = HeaderToken(lines[1])

\* a Break read from the long header was written
C30_Witness ==
    /\ VideoOrBreakWritten
    /\ lines # <<>>
    /\ WrittenValue.kind = "Break"
    /\ HeaderToken(out) = LongHeaderOf("Break")

=============================================================================
